---- MODULE Spec2Model ----
(***************************************************************************)
(* Configuration persistence layer of offset-explorer-rs:                  *)
(*   - config/crypto.rs            the secret codec                        *)
(*   - config/server_connection.rs the connection store and its XML form   *)
(*   - config/server_group.rs      the server group tree                   *)
(*   - config/settings_complete.rs the settings registry                   *)
(*   - tauri_commands.rs           the sessions of the application state   *)
(* Strings are modelled as sequences: a password is the sequence of its    *)
(* UTF-8 bytes, a hex string or a decimal string is a sequence of          *)
(* one-character strings.                                                  *)
(***************************************************************************)
EXTENDS Integers, Sequences, FiniteSets, TLC

\* ------------------------------------------------------------------ bounds
\* The clock (milliseconds since the epoch) ranges over 0..MaxClock.
MaxClock == 2

\* --------------------------------------------------------------- constants
BUFFER_SIZE == 128
\* Length of a SHA-1 digest (sha1::Sha1::finalize()).
DIGEST_LEN == 20

VARIABLES
    clock,      \* what SystemTime::now() returns, in milliseconds
    plain,      \* codec: the plaintext handed to encrypt_password (UTF-8 bytes)
    encRes,     \* codec: outcome of encrypt_password(plain), or None
    hex,        \* codec: the hex string handed to decrypt_password, or None
    hexFrom,    \* codec: "none", "encrypt" (hex = encRes.val) or "input"
    decRuns,    \* codec: the runs of decrypt_password(hex): {[seed, res]}
    connections,\* store: ServerConnectionSettings.connections
    next_id,    \* store: ServerConnectionSettings.next_id
    last,       \* store: the last call: its arguments, its result, the store before it
    pureAdd,    \* store: TRUE while the store was built by add_connection with id 0 only
    xml,        \* store: outcome of the to_xml call, with the store it serialized
    fresh,      \* store: a fresh store after from_xml of the to_xml output
    root,       \* groups: ServerGroupManager.root
    group_next_id, \* groups: ServerGroupManager.next_id
    group_last, \* groups: the last call on the manager: arguments, result, manager before
    group_returned, \* groups: the ids add_group has returned so far
    group_xml,  \* groups: outcome of the to_xml call, with the tree it serialized
    group_fresh, \* groups: a fresh manager after from_xml of the to_xml output
    settings,   \* settings: UserSettings.settings, key -> Setting
    settings_last, \* settings: the last set or from_xml call: arguments and result
    settings_read, \* settings: what the last read returned (None after a change)
    disk,       \* files: the content of the groups file on disk, None while there is no file
    save_pc,    \* files: where save_to_file stands: "idle", "writing" or "crashed"
    save_new,   \* files: the text the running save_to_file writes
    save_prev,  \* files: the content of the file when the running save_to_file began
    env_borrow, \* environment: the live borrows of the connection store
    env_pass,   \* environment: the to_xml call on the store, running or returned
    env_writers, \* environment: the mutating calls on the store that are running
    app_connections, \* app: AppState.connections, server id -> KafkaMapper
    app_calls,  \* app: per caller, the command it runs and where it stands
    app_mappers \* app: the KafkaMappers created, each open, closed or replaced

codecVars == <<plain, encRes, hex, hexFrom, decRuns>>
connVars == <<connections, next_id, last, pureAdd, xml, fresh>>
groupVars == <<root, group_next_id, group_last, group_returned, group_xml, group_fresh>>
settingsVars == <<settings, settings_last, settings_read>>
fileVars == <<disk, save_pc, save_new, save_prev>>
envVars == <<env_borrow, env_pass, env_writers>>
appVars == <<app_connections, app_calls, app_mappers>>
vars == <<clock, codecVars, connVars, groupVars, settingsVars, fileVars, envVars, appVars, envVars, appVars>>

\* Largest number of connections the store holds.
MaxConns == 2
\* The id counter of the store is not stepped beyond MaxNextId.
MaxNextId == 3
\* The id counter of the group manager is not stepped beyond MaxGroupId.
MaxGroupId == 4
\* Number of threads that invoke commands on the application state.
MaxCallers == 2

\* ----------------------------------------------------------------- results
None == [tag |-> "None"]
Some(v) == [tag |-> "Some", val |-> v]
Ok(v) == [tag |-> "Ok", val |-> v]
Err(e) == [tag |-> "Err", err |-> e]
\* A Rust panic: the call does not return.
Panic(e) == [tag |-> "Panic", err |-> e]

Min(a, b) == IF a < b THEN a ELSE b

\* ------------------------------------------------------------ bit twiddling
RECURSIVE BitXor(_, _)
BitXor(a, b) ==
    IF a = 0 THEN b
    ELSE IF b = 0 THEN a
    ELSE (((a % 2) + (b % 2)) % 2) + 2 * BitXor(a \div 2, b \div 2)

RECURSIVE BitAnd(_, _)
BitAnd(a, b) ==
    IF a = 0 \/ b = 0 THEN 0
    ELSE ((a % 2) * (b % 2)) + 2 * BitAnd(a \div 2, b \div 2)

\* ------------------------------------------------------------------ hex crate
HexLower == <<"0","1","2","3","4","5","6","7","8","9","a","b","c","d","e","f">>

\* hex::encode: two lower-case digits per byte, high nibble first.
HexEncode(bytes) ==
    [k \in 1..(2 * Len(bytes)) |->
        LET b == bytes[(k + 1) \div 2]
        IN  IF (k % 2) = 1 THEN HexLower[(b \div 16) + 1] ELSE HexLower[(b % 16) + 1]]

\* Value of one hex digit, -1 when the character is no hex digit.
HexVal(c) ==
    CASE c = "0" -> 0 [] c = "1" -> 1 [] c = "2" -> 2 [] c = "3" -> 3
      [] c = "4" -> 4 [] c = "5" -> 5 [] c = "6" -> 6 [] c = "7" -> 7
      [] c = "8" -> 8 [] c = "9" -> 9
      [] c \in {"a", "A"} -> 10 [] c \in {"b", "B"} -> 11 [] c \in {"c", "C"} -> 12
      [] c \in {"d", "D"} -> 13 [] c \in {"e", "E"} -> 14 [] c \in {"f", "F"} -> 15
      [] OTHER -> -1

\* hex::decode: Err on odd length or on a character that is no hex digit.
HexDecode(h) ==
    IF (Len(h) % 2) # 0 THEN Err("OddLength")
    ELSE IF \E k \in 1..Len(h) : HexVal(h[k]) < 0 THEN Err("InvalidHexCharacter")
    ELSE Ok([i \in 1..(Len(h) \div 2) |-> 16 * HexVal(h[2 * i - 1]) + HexVal(h[2 * i])])

\* ------------------------------------------------------------------- UTF-8
IsCont(b) == b >= 128 /\ b <= 191

\* Number of bytes of the character a lead byte opens; 0 for a byte that
\* cannot open one (a continuation byte, 0xC0, 0xC1, 0xF5..0xFF).
Utf8Width(b) ==
    IF b < 128 THEN 1
    ELSE IF b >= 194 /\ b <= 223 THEN 2
    ELSE IF b >= 224 /\ b <= 239 THEN 3
    ELSE IF b >= 240 /\ b <= 244 THEN 4
    ELSE 0

\* String::from_utf8 accepts exactly the well-formed UTF-8 byte sequences:
\* the text starts with a lead byte, and every lead byte is followed by
\* exactly the continuation bytes its width asks for (no overlong forms, no
\* surrogates, nothing above U+10FFFF).
IsUtf8(s) ==
    /\ Len(s) > 0 => ~IsCont(s[1])
    /\ \A i \in 1..Len(s) :
         IsCont(s[i]) \/
         LET b == s[i]
             w == Utf8Width(b)
         IN  /\ w > 0
             /\ i + w - 1 <= Len(s)
             /\ \A j \in (i + 1)..(i + w - 1) : IsCont(s[j])
             /\ (i + w <= Len(s)) => ~IsCont(s[i + w])
             /\ (b = 224) => s[i + 1] >= 160
             /\ (b = 237) => s[i + 1] <= 159
             /\ (b = 240) => s[i + 1] >= 144
             /\ (b = 244) => s[i + 1] <= 143

\* ------------------------------------------------------- library stand-ins
\* rand::rngs::StdRng::from_seed(seed).fill(random): a byte stream that is a
\* fixed function of the seed.  The generator itself is library code; the
\* stand-in keeps what the codec relies on: same seed, same bytes; different
\* seeds, (in general) different bytes of either parity.
StdRngFill(seed, len) ==
    [j \in 1..len |-> ((seed + 1) * 73 + j * 151 + seed * j * 29 + seed * seed * 17) % 256]

\* sha1::Sha1 digest of a byte string: DIGEST_LEN bytes, a fixed function of
\* the input (stand-in for the library hash).
Sha1(bytes) ==
    LET n == Len(bytes)
        at(k) == IF n = 0 THEN 0 ELSE bytes[((k * 7) % n) + 1]
    IN  [k \in 1..DIGEST_LEN |-> (at(k) * k + n * 31 + k * k * 7 + 11) % 256]

\* --------------------------------------------------------- config/crypto.rs
\* generate_key(len), called when the clock reads `now`.
generate_key(len, now) ==
    LET seed == now
        random == StdRngFill(seed, len)
    IN  [k \in 1..len |->
            LET i == k - 1
                bit_index == i * 8
                byte_index == i \div 8
                bit_value == BitAnd(random[byte_index + 1], 2 ^ (bit_index % 8)) # 0
                pattern_bit == (((bit_index \div 2) % 2) = 0)
            IN  IF bit_value # pattern_bit THEN 1 ELSE random[byte_index + 1]]

\* The while loop of generate_filler: digest_pos is never reset, so the
\* index digest_bytes[digest_pos] leaves the digest once filler_len exceeds it.
RECURSIVE FillerLoop(_, _, _, _, _)
FillerLoop(filler, filler_pos, digest_pos, digest_bytes, filler_len) ==
    IF filler_pos < filler_len
    THEN IF digest_pos >= Len(digest_bytes)
         THEN Panic("index out of bounds")
         ELSE FillerLoop([filler EXCEPT ![filler_pos + 1] = digest_bytes[digest_pos + 1]],
                         filler_pos + 1, digest_pos + 1, digest_bytes, filler_len)
    ELSE Ok(filler)

generate_filler(key, filler_len) ==
    LET digest_bytes == Sha1(key)
        filler == [i \in 1..filler_len |-> 0]
        digest_len == Min(Len(digest_bytes), filler_len)
    IN  IF digest_len > 0
        THEN FillerLoop(filler, 0, 0, digest_bytes, filler_len)
        ELSE Ok(filler)

\* encrypt_password(pw_str), called when the clock reads `now`.
encrypt_password(pw_str, now) ==
    LET password == pw_str
        key == generate_key(Len(password), now)
        encrypted == [i \in 1..Len(password) |-> BitXor(password[i], BitAnd(key[i], 255))]
    IN  IF BUFFER_SIZE < Len(encrypted) + 1
        THEN Panic("attempt to subtract with overflow")
        ELSE LET filler_len == BUFFER_SIZE - Len(encrypted) - 1
                 filler == generate_filler(key, filler_len)
             IN  IF filler.tag # "Ok" THEN filler
                 ELSE LET ret == [k \in 1..BUFFER_SIZE |->
                                    IF k = 1 THEN filler_len % 256
                                    ELSE IF k <= filler_len + 1 THEN filler.val[k - 1]
                                    ELSE encrypted[k - 1 - filler_len]]
                      IN  Ok(HexEncode(ret))

\* decrypt_password(hex), called when the clock reads `now`.
decrypt_password(h, now) ==
    LET decoded == HexDecode(h)
    IN  IF decoded.tag # "Ok" THEN decoded
        ELSE LET encrypted == decoded.val
             IN  IF Len(encrypted) = 0 THEN Panic("index out of bounds")
                 ELSE LET filler_len == encrypted[1]
                      IN  IF Len(h) \div 2 < filler_len + 1
                          THEN Panic("attempt to subtract with overflow")
                          ELSE LET secret_len == Len(h) \div 2 - filler_len - 1
                                   key == generate_key(secret_len, now)
                                   secret == [k \in 1..secret_len |->
                                                BitXor(encrypted[filler_len + 1 + k],
                                                       BitAnd(key[k], 255))]
                               IN  IF IsUtf8(secret) THEN Ok(secret)
                                   ELSE Err("Invalid UTF-8")

\* ------------------------------------------------------------ codec inputs
\* n bytes repeating pattern p.
Repeat(p, n) == [i \in 1..n |-> p[((i - 1) % Len(p)) + 1]]

\* "p", "Pw"
Patterns == {<<112>>, <<80, 119>>}

\* Plaintexts of every length the codec's contract covers: 0..BUFFER_SIZE-2.
MaxPlainLen == BUFFER_SIZE - 2
Plaintexts == {Repeat(p, n) : p \in Patterns, n \in 0..MaxPlainLen}

\* Hex strings reaching decrypt_password from a file rather than from
\* encrypt_password: empty, odd length, no hex digits, a first byte larger
\* than the rest, and two short well-formed buffers.
HexInputs ==
    { <<>>,
      <<"0">>,
      <<"z", "z">>,
      HexEncode(<<5, 1, 2>>),
      HexEncode(<<2, 7, 7, 113, 118, 101>>),
      HexEncode(<<0, 200, 40>>) }

\* ---------------------------------------------- config/server_group.rs
\* ServerGroup::new
ServerGroupNew(id, name) == [id |-> id, name |-> name, children |-> <<>>]

\* ServerGroupChild::Group / ServerGroupChild::Connection
GroupChild(g) == [type |-> "Group", group |-> g]
ConnectionChild(id) == [type |-> "Connection", id |-> id]

\* ServerGroup::add_child
add_child(group, child) == [group EXCEPT !.children = Append(@, child)]

\* new() with the counter starting at the id of the root.
ServerGroupManagerNewFromZero ==
    [root |-> ServerGroupNew(0, <<"R", "o", "o", "t">>), next_id |-> 0]

\* ServerGroupManager::new
ServerGroupManagerNew ==
    [root |-> ServerGroupNew(0, <<"R", "o", "o", "t">>), next_id |-> 1]

\* ServerGroupManager::get_root
get_root(m) == m.root

\* find_group_recursive: the first group with the id, the group itself
\* first, then its children in order, each with all beneath it.
RECURSIVE find_group_recursive(_, _)
RECURSIVE FindInChildren(_, _, _)
find_group_recursive(group, id) ==
    IF group.id = id THEN Some(group) ELSE FindInChildren(group.children, 1, id)

\* The `for child in &group.children` loop of find_group_recursive, from child i.
FindInChildren(children, i, id) ==
    IF i > Len(children) THEN None
    ELSE IF children[i].type = "Group"
         THEN LET found == find_group_recursive(children[i].group, id)
              IN  IF found # None THEN found ELSE FindInChildren(children, i + 1, id)
         ELSE FindInChildren(children, i + 1, id)

\* get_group with the search starting below the root.
get_group_below_root(m, id) == FindInChildren(m.root.children, 1, id)

\* ServerGroupManager::get_group
get_group(m, id) == IF id = 0 THEN Some(m.root) ELSE find_group_recursive(m.root, id)

\* find_group_recursive_mut followed by a write through the reference it
\* returns: the tree with `child` pushed to the first group with the id
\* (the group, its children in order: the child, then all beneath it).
RECURSIVE PushAt(_, _, _)
RECURSIVE PushInChildren(_, _, _, _)
PushAt(group, id, child) ==
    IF group.id = id THEN [found |-> TRUE, group |-> add_child(group, child)]
    ELSE LET r == PushInChildren(group.children, 1, id, child)
         IN  [found |-> r.found, group |-> [group EXCEPT !.children = r.children]]

PushInChildren(children, i, id, child) ==
    IF i > Len(children) THEN [found |-> FALSE, children |-> children]
    ELSE IF children[i].type = "Group"
         THEN LET r == PushAt(children[i].group, id, child)
              IN  IF r.found
                  THEN [found |-> TRUE,
                        children |-> [children EXCEPT ![i] = GroupChild(r.group)]]
                  ELSE PushInChildren(children, i + 1, id, child)
         ELSE PushInChildren(children, i + 1, id, child)

\* ServerGroupManager::get_group_mut: whether a group is found; the write
\* through the reference is PushAt.
get_group_mut(m, id) == IF id = 0 THEN Some(m.root) ELSE find_group_recursive(m.root, id)

\* add_group that leaves the counter where it was.
add_group_same_id(m, parent_id, name) ==
    LET id == m.next_id
        new_group == ServerGroupNew(id, name)
    IN  IF get_group_mut(m, parent_id) # None
        THEN [res |-> Ok(id),
              root |-> IF parent_id = 0 THEN add_child(m.root, GroupChild(new_group))
                       ELSE PushAt(m.root, parent_id, GroupChild(new_group)).group,
              next_id |-> m.next_id]
        ELSE [res |-> Err("Parent group not found"), root |-> m.root, next_id |-> m.next_id]

\* ServerGroupManager::add_group: the id is taken from the counter before
\* the parent is looked up.
add_group(m, parent_id, name) ==
    LET id == m.next_id
        stepped == m.next_id + 1
        new_group == ServerGroupNew(id, name)
    IN  IF get_group_mut(m, parent_id) # None
        THEN [res |-> Ok(id),
              root |-> IF parent_id = 0 THEN add_child(m.root, GroupChild(new_group))
                       ELSE PushAt(m.root, parent_id, GroupChild(new_group)).group,
              next_id |-> stepped]
        ELSE [res |-> Err("Parent group not found"), root |-> m.root, next_id |-> stepped]

\* remove_group without the guard on the root id.
remove_group_unguarded(m, id) ==
    IF id = 0
    THEN [res |-> Ok(<<>>), root |-> ServerGroupNew(0, m.root.name), next_id |-> m.next_id]
    ELSE [res |-> Ok(<<>>), root |-> m.root, next_id |-> m.next_id]

\* ServerGroupManager::remove_group
remove_group(m, id) ==
    IF id = 0
    THEN [res |-> Err("Cannot remove root group"), root |-> m.root, next_id |-> m.next_id]
    ELSE [res |-> Ok(<<>>), root |-> m.root, next_id |-> m.next_id]

\* ServerGroupManager::from_xml
ServerGroupManager_from_xml(m, doc) ==
    [res |-> Ok(<<>>), root |-> m.root, next_id |-> m.next_id]

\* ------------------------- config/settings_complete.rs: the setting table
\* SettingValue: one record shape per variant. A Double is held in tenths
\* (d = 15 is 1.5): the doubles of the model have at most one decimal.
IntegerValue(i) == [variant |-> "Integer", i |-> i]
LongValue(l) == [variant |-> "Long", l |-> l]
DoubleValue(d) == [variant |-> "Double", d |-> d]
StringValue(s) == [variant |-> "String", s |-> s]
BooleanValue(b) == [variant |-> "Boolean", b |-> b]
ColorValue(r, g, b) == [variant |-> "Color", r |-> r, g |-> g, b |-> b]

\* Setting
Setting(key, value, dynamic, data_type, persisted) ==
    [key |-> key, value |-> value, dynamic |-> dynamic,
     data_type |-> data_type, persisted |-> persisted]

KeyFontSize == <<"f", "o", "n", "t", "_", "s", "i", "z", "e">>
KeyConfirmExit == <<"c", "o", "n", "f", "i", "r", "m", "_", "e", "x", "i", "t">>
KeyKeyType == <<"k", "e", "y", "_", "t", "y", "p", "e">>

\* UserSettings::initialize_defaults. The model carries three of the 41
\* defaults, one for each variant but Long that occurs among them; every
\* default is persisted and has the data_type of its value.
initialize_defaults ==
    [k \in {KeyFontSize, KeyConfirmExit, KeyKeyType} |->
        IF k = KeyFontSize THEN Setting(k, IntegerValue(12), FALSE, "Integer", TRUE)
        ELSE IF k = KeyConfirmExit THEN Setting(k, BooleanValue(TRUE), TRUE, "Boolean", TRUE)
        ELSE Setting(k, StringValue(<<"b", "y", "t", "e", "_", "a", "r", "r", "a", "y">>),
                     TRUE, "String", TRUE)]

\* UserSettings::new
UserSettingsNew == initialize_defaults

\* No call made on the store yet.
NoCall == [op |-> "none"]

\* The group manager as Environment::new() builds it.
GroupIdle ==
    /\ root = ServerGroupManagerNew.root
    /\ group_next_id = ServerGroupManagerNew.next_id
    /\ group_last = NoCall
    /\ group_returned = {}
    /\ group_xml = None
    /\ group_fresh = None

\* The settings as Environment::new() builds them.
SettingsIdle ==
    /\ settings = UserSettingsNew
    /\ settings_last = NoCall
    /\ settings_read = None

\* No save has begun and there is no groups file yet.
FilesIdle ==
    /\ disk = None
    /\ save_pc = "idle"
    /\ save_new = <<>>
    /\ save_prev = None

\* No call on the connection store of the environment is running.
EnvIdle ==
    /\ env_borrow = [shared |-> 0, exclusive |-> FALSE]
    /\ env_pass = [pc |-> "idle"]
    /\ env_writers = {}

\* Threads that invoke the commands of TauriCommands.
Callers == 1..MaxCallers

\* AppState::new(): no connection; no command is running; no mapper exists.
AppStateNew == [connections |-> <<>>]
AppIdle ==
    /\ app_connections = AppStateNew.connections
    /\ app_calls = [t \in Callers |-> [pc |-> "idle"]]
    /\ app_mappers = [open |-> {}, closed |-> {}, replaced |-> {}]

\* The parts of the state a codec run leaves alone.
ConnIdle ==
    /\ connections = <<>>
    /\ next_id = 0
    /\ last = NoCall
    /\ pureAdd = TRUE
    /\ xml = None
    /\ fresh = None

\* --------------------------------------------------------- codec: machine
\* A run of the codec either encodes a plaintext and decodes the output, or
\* decodes a hex string that came from a file.
CodecInit ==
    /\ clock = 0
    /\ FilesIdle
    /\ EnvIdle
    /\ AppIdle
    /\ ConnIdle
    /\ GroupIdle
    /\ SettingsIdle
    /\ encRes = None
    /\ decRuns = {}
    /\ \/ plain \in Plaintexts /\ hex = None /\ hexFrom = "none"
       \/ plain = <<>> /\ hex \in HexInputs /\ hexFrom = "input"

\* Time passes.
Tick ==
    /\ clock < MaxClock
    /\ clock' = clock + 1
    /\ UNCHANGED <<codecVars, connVars, groupVars, settingsVars, fileVars, envVars, appVars>>

\* encrypt_password(plain); its output, when there is one, is what gets decoded.
Encrypt ==
    /\ hexFrom = "none"
    /\ encRes = None
    /\ encRes' = encrypt_password(plain, clock)
    /\ IF encRes'.tag = "Ok"
       THEN hex' = encRes'.val /\ hexFrom' = "encrypt"
       ELSE UNCHANGED <<hex, hexFrom>>
    /\ UNCHANGED <<clock, plain, decRuns, connVars, groupVars, settingsVars, fileVars, envVars, appVars>>

\* decrypt_password(hex)
Decrypt ==
    /\ hexFrom # "none"
    /\ decRuns' = decRuns \cup {[seed |-> clock, res |-> decrypt_password(hex, clock)]}
    /\ UNCHANGED <<clock, plain, encRes, hex, hexFrom, connVars, groupVars, settingsVars, fileVars, envVars, appVars>>

CodecNext == Tick \/ Encrypt \/ Decrypt

CodecSpec == CodecInit /\ [][CodecNext]_vars

\* ---------------------------------------------------------- codec: claims
\* C1: round trip. For every plaintext s of 0..126 bytes encrypt_password(s)
\* returns Ok(h), and decrypt_password(h) returns Ok(s) whatever clock value
\* the two calls see.
C1_RoundTrip ==
    /\ encRes.tag \in {"None", "Ok"}
    /\ hexFrom = "encrypt" => \A r \in decRuns : r.res = Ok(plain)

\* C2: for every plaintext of 0..126 bytes encrypt_password completes and
\* returns exactly 256 hex characters (a BUFFER_SIZE-byte buffer).
C2_EncryptReturns256Hex ==
    encRes # None => (encRes.tag = "Ok" /\ Len(encRes.val) = 2 * BUFFER_SIZE)

\* C3: decoding depends on the hex input only: two runs of decrypt_password
\* on the same hex string under different seeds return the same result.
C3_DecodeIgnoresSeed ==
    \A r1, r2 \in decRuns : r1.res = r2.res

\* ------------------------------------------------------------------ strings
UpperChars == <<"A","B","C","D","E","F","G","H","I","J","K","L","M",
                "N","O","P","Q","R","S","T","U","V","W","X","Y","Z">>
LowerChars == <<"a","b","c","d","e","f","g","h","i","j","k","l","m",
                "n","o","p","q","r","s","t","u","v","w","x","y","z">>
DigitChars == <<"0","1","2","3","4","5","6","7","8","9">>

IsIn(c, table) == \E i \in 1..Len(table) : table[i] = c
IndexIn(c, table) == CHOOSE i \in 1..Len(table) : table[i] = c

\* Code point of an ASCII letter, digit or one of , - . _ (0 for any other
\* character).
CharCode(c) ==
    IF IsIn(c, DigitChars) THEN 47 + IndexIn(c, DigitChars)
    ELSE IF IsIn(c, UpperChars) THEN 64 + IndexIn(c, UpperChars)
    ELSE IF IsIn(c, LowerChars) THEN 96 + IndexIn(c, LowerChars)
    ELSE IF c = "," THEN 44
    ELSE IF c = "-" THEN 45
    ELSE IF c = "." THEN 46
    ELSE IF c = "_" THEN 95
    ELSE 0

\* String::from_utf8 on ASCII letters and digits: the text of the bytes.
CharOf(b) ==
    IF b \in 48..57 THEN DigitChars[b - 47]
    ELSE IF b \in 65..90 THEN UpperChars[b - 64]
    ELSE IF b \in 97..122 THEN LowerChars[b - 96]
    ELSE "?"
Utf8ToString(bytes) == [i \in 1..Len(bytes) |-> CharOf(bytes[i])]

\* u8::to_ascii_lowercase / char::to_lowercase on ASCII text.
LowerChar(c) == IF IsIn(c, UpperChars) THEN LowerChars[IndexIn(c, UpperChars)] ELSE c

\* str::to_lowercase
to_lowercase(a) == [i \in 1..Len(a) |-> LowerChar(a[i])]

\* str::eq_ignore_ascii_case
eq_ignore_ascii_case(a, b) ==
    /\ Len(a) = Len(b)
    /\ \A i \in 1..Len(a) : LowerChar(a[i]) = LowerChar(b[i])

\* Ord for String: lexicographic on the code points; a < b.
RECURSIVE StrLess(_, _)
StrLess(a, b) ==
    IF Len(b) = 0 THEN FALSE
    ELSE IF Len(a) = 0 THEN TRUE
    ELSE IF CharCode(a[1]) # CharCode(b[1]) THEN CharCode(a[1]) < CharCode(b[1])
    ELSE StrLess(Tail(a), Tail(b))

\* i64::to_string
RECURSIVE NatToString(_)
NatToString(n) ==
    IF n < 10 THEN <<DigitChars[n + 1]>>
    ELSE NatToString(n \div 10) \o <<DigitChars[(n % 10) + 1]>>

I64ToString(n) == IF n < 0 THEN <<"-">> \o NatToString(-n) ELSE NatToString(n)

RECURSIVE DigitsValue(_)
DigitsValue(d) ==
    IF Len(d) = 0 THEN 0
    ELSE 10 * DigitsValue(SubSeq(d, 1, Len(d) - 1)) + (IndexIn(d[Len(d)], DigitChars) - 1)

\* str::parse::<i64>(): an optional sign and at least one digit. (The
\* decimal strings of the model stay far below the i64 range.)
ParseI64(str) ==
    LET signed == Len(str) > 0 /\ str[1] \in {"+", "-"}
        digits == IF signed THEN Tail(str) ELSE str
    IN  IF Len(digits) = 0 \/ \E i \in 1..Len(digits) : ~IsIn(digits[i], DigitChars)
        THEN Err("ParseIntError")
        ELSE Ok(IF signed /\ str[1] = "-" THEN -DigitsValue(digits) ELSE DigitsValue(digits))

\* ------------------------------------------------------- quick_xml events
\* A document is the sequence of events quick_xml's reader yields for it (and
\* its writer was given): Start, End and Empty elements with their
\* attributes (attribute name -> unescaped value), and Err where the text
\* is not well-formed. Eof is the end of the sequence.
StartEv(n, a) == [type |-> "Start", name |-> n, attrs |-> a]
EmptyEv(n, a) == [type |-> "Empty", name |-> n, attrs |-> a]
EndEv(n) == [type |-> "End", name |-> n, attrs |-> <<>>]
ErrEv == [type |-> "Err", name |-> "", attrs |-> <<>>]

\* e.try_get_attribute(k)?.and_then(|a| a.decode_and_unescape_value(..).ok())
HasAttr(e, k) == k \in DOMAIN e.attrs

\* ------------------------------------------ config/server_connection.rs
\* The six secret fields of ServerConnection, in the order write_connection
\* and parse_connection_start handle them; each is also the attribute name.
SecretOrder ==
    << "truststore_password", "keystore_password", "keystore_privatekey",
       "schema_registry_ssl_truststore_password",
       "schema_registry_ssl_keystore_password",
       "schema_registry_ssl_keystore_private_key" >>
SecretFields == {SecretOrder[i] : i \in 1..Len(SecretOrder)}

NoSecrets == [f \in SecretFields |-> None]

TopicFields ==
    {"key_decoder", "message_decoder", "string_type", "header_type",
     "offset_request_type", "parent_folder"}

\* ServerConnection::new(id, name). Of the scalar attributes that are
\* copied verbatim (host, chroot, bootstrap_servers, the locations, the SASL
\* and schema-registry strings) the model keeps host.
ServerConnectionNew(id, name) ==
    [ id |-> id,
      server_group_id |-> 1,
      name |-> name,
      host |-> <<>>,
      port |-> None,
      broker_security_type |-> "PLAINTEXT",
      secrets |-> NoSecrets,
      folders |-> <<>>,
      topic_configs |-> <<>> ]

\* BrokerSecurityType::from_str
BrokerSecurityTypes == {"PLAINTEXT", "SSL", "SASL_PLAINTEXT", "SASL_SSL"}
SecurityChars(t) ==
    CASE t = "PLAINTEXT" -> <<"P","L","A","I","N","T","E","X","T">>
      [] t = "SSL" -> <<"S","S","L">>
      [] t = "SASL_PLAINTEXT" -> <<"S","A","S","L","_","P","L","A","I","N","T","E","X","T">>
      [] t = "SASL_SSL" -> <<"S","A","S","L","_","S","S","L">>
BrokerSecurityType_from_str(str) ==
    IF \E t \in BrokerSecurityTypes : SecurityChars(t) = str
    THEN Ok(CHOOSE t \in BrokerSecurityTypes : SecurityChars(t) = str)
    ELSE Err("Unknown security type")

\* ServerConnectionSettings::new(), when the clock reads `now`.
ServerConnectionSettingsNew(now) == [connections |-> <<>>, next_id |-> now]

\* find_connection_by_name
find_connection_by_name(conns, name) ==
    IF \E i \in 1..Len(conns) : eq_ignore_ascii_case(conns[i].name, name)
    THEN Some(conns[CHOOSE i \in 1..Len(conns) :
                      /\ eq_ignore_ascii_case(conns[i].name, name)
                      /\ \A j \in 1..(i - 1) : ~eq_ignore_ascii_case(conns[j].name, name)])
    ELSE None

\* generate_id
generate_id(nid) == nid + 1

\* add_connection with the duplicate check comparing names exactly.
add_connection_exact(conns, nid, connection) ==
    IF \E i \in 1..Len(conns) : conns[i].name = connection.name
    THEN [res |-> Err("already exists"), connections |-> conns, next_id |-> nid]
    ELSE IF connection.id = 0
         THEN [res |-> Ok(<<>>),
               connections |-> Append(conns, [connection EXCEPT !.id = generate_id(nid)]),
               next_id |-> generate_id(nid)]
         ELSE [res |-> Ok(<<>>), connections |-> Append(conns, connection), next_id |-> nid]

\* add_connection on the store (conns, nid): the result and the store after.
add_connection(conns, nid, connection) ==
    IF find_connection_by_name(conns, connection.name) # None
    THEN [res |-> Err("already exists"), connections |-> conns, next_id |-> nid]
    ELSE IF connection.id = 0
         THEN [res |-> Ok(<<>>),
               connections |-> Append(conns, [connection EXCEPT !.id = generate_id(nid)]),
               next_id |-> generate_id(nid)]
         ELSE [res |-> Ok(<<>>), connections |-> Append(conns, connection), next_id |-> nid]

\* remove_connection
remove_connection(conns, nid, id) ==
    IF \E i \in 1..Len(conns) : conns[i].id = id
    THEN LET pos == CHOOSE i \in 1..Len(conns) :
                       conns[i].id = id /\ \A j \in 1..(i - 1) : conns[j].id # id
         IN  [res |-> Ok(<<>>),
              connections |-> SubSeq(conns, 1, pos - 1) \o SubSeq(conns, pos + 1, Len(conns)),
              next_id |-> nid]
    ELSE [res |-> Err("Connection not found"), connections |-> conns, next_id |-> nid]

\* sort_by_name: Vec::sort_by is stable; the key is name.to_lowercase().
RECURSIVE InsertSorted(_, _)
InsertSorted(sorted, c) ==
    IF Len(sorted) = 0 THEN <<c>>
    ELSE IF StrLess(to_lowercase(c.name), to_lowercase(sorted[1].name))
         THEN <<c>> \o sorted
         ELSE <<sorted[1]>> \o InsertSorted(Tail(sorted), c)

RECURSIVE SortFrom(_, _, _)
SortFrom(conns, i, sorted) ==
    IF i > Len(conns) THEN sorted ELSE SortFrom(conns, i + 1, InsertSorted(sorted, conns[i]))

sort_by_name(conns) == SortFrom(conns, 1, <<>>)

\* The topics of a HashMap<String, TopicDecoderConfig> in iteration order.
\* (The order is unspecified; the maps of the model hold at most one topic.)
RECURSIVE TopicSeq(_)
TopicSeq(names) ==
    IF names = {} THEN <<>>
    ELSE LET n == CHOOSE x \in names : TRUE IN <<n>> \o TopicSeq(names \ {n})

\* The start tag with every secret written as it is held in memory.
ConnectionAttrsPlain(conn, enc) ==
    LET present == {f \in SecretFields : conn.secrets[f] # None}
    IN  [k \in {"name", "host", "port", "id", "group", "broker_security_type"} \cup present |->
            CASE k = "name" -> conn.name
              [] k = "host" -> conn.host
              [] k = "port" -> IF conn.port = None THEN <<>> ELSE I64ToString(conn.port.val)
              [] k = "id" -> I64ToString(conn.id)
              [] k = "group" -> I64ToString(conn.server_group_id)
              [] k = "broker_security_type" -> SecurityChars(conn.broker_security_type)
              [] OTHER -> Utf8ToString(conn.secrets[k].val)]

\* The start tag of write_connection: the scalar attributes, then one
\* attribute per secret that is Some, holding `enc` of it.
ConnectionAttrs(conn, enc) ==
    LET present == {f \in SecretFields : conn.secrets[f] # None}
    IN  [k \in {"name", "host", "port", "id", "group", "broker_security_type"} \cup present |->
            CASE k = "name" -> conn.name
              [] k = "host" -> conn.host
              [] k = "port" -> IF conn.port = None THEN <<>> ELSE I64ToString(conn.port.val)
              [] k = "id" -> I64ToString(conn.id)
              [] k = "group" -> I64ToString(conn.server_group_id)
              [] k = "broker_security_type" -> SecurityChars(conn.broker_security_type)
              [] OTHER -> enc[k].val]

\* The folders block of write_connection.
FolderEvents(conn) ==
    IF Len(conn.folders) = 0 THEN <<>>
    ELSE <<StartEv("folders", <<>>)>>
         \o [i \in 1..Len(conn.folders) |-> EmptyEv("folder", [k \in {"name"} |-> conn.folders[i]])]
         \o <<EndEv("folders")>>

\* The topics block of write_connection.
TopicEvents(conn) ==
    LET names == TopicSeq(DOMAIN conn.topic_configs)
        topic(n) ==
            LET config == conn.topic_configs[n]
            IN  EmptyEv("topic",
                    [k \in {"name"} \cup {f \in TopicFields : config[f] # None} |->
                        IF k = "name" THEN n ELSE config[k].val])
    IN  IF Len(names) = 0 THEN <<>>
        ELSE <<StartEv("topics", <<>>)>>
             \o [i \in 1..Len(names) |-> topic(names[i])]
             \o <<EndEv("topics")>>

\* The first secret field, in SecretOrder, whose outcome in `res` is not Ok.
FirstFailed(failed) ==
    SecretOrder[CHOOSE i \in 1..Len(SecretOrder) :
                   /\ SecretOrder[i] \in failed
                   /\ \A j \in 1..(i - 1) : SecretOrder[j] \notin failed]

\* write_connection, when the clock reads `now`: the events written, or the
\* panic of the first encrypt_password call that does not return.
write_connection(conn, now) ==
    LET present == {f \in SecretFields : conn.secrets[f] # None}
        enc == [f \in present |-> encrypt_password(conn.secrets[f].val, now)]
        failed == {f \in present : enc[f].tag # "Ok"}
    IN  IF failed # {} THEN enc[FirstFailed(failed)]
        ELSE Ok(<<StartEv("connection", ConnectionAttrs(conn, enc))>>
                \o FolderEvents(conn)
                \o TopicEvents(conn)
                \o <<EndEv("connection")>>)

RECURSIVE WriteConnections(_, _, _)
WriteConnections(conns, i, now) ==
    IF i > Len(conns) THEN Ok(<<>>)
    ELSE LET w == write_connection(conns[i], now)
         IN  IF w.tag # "Ok" THEN w
             ELSE LET rest == WriteConnections(conns, i + 1, now)
                  IN  IF rest.tag # "Ok" THEN rest ELSE Ok(w.val \o rest.val)

\* to_xml, when the clock reads `now`.
to_xml(conns, now) ==
    LET body == WriteConnections(conns, 1, now)
    IN  IF body.tag # "Ok" THEN body
        ELSE Ok(<<StartEv("connections", <<>>)>> \o body.val \o <<EndEv("connections")>>)

\* parse_connection_start, when the clock reads `now`.
parse_connection_start(e, now) ==
    LET conn == ServerConnectionNew(0, <<>>)
        name == IF HasAttr(e, "name") THEN e.attrs["name"] ELSE conn.name
        id == IF HasAttr(e, "id")
              THEN LET p == ParseI64(e.attrs["id"]) IN IF p.tag = "Ok" THEN p.val ELSE 0
              ELSE conn.id
        group == IF HasAttr(e, "group")
                 THEN LET p == ParseI64(e.attrs["group"]) IN IF p.tag = "Ok" THEN p.val ELSE 1
                 ELSE conn.server_group_id
        host == IF HasAttr(e, "host") THEN e.attrs["host"] ELSE conn.host
        port == IF HasAttr(e, "port")
                THEN LET p == ParseI64(e.attrs["port"]) IN IF p.tag = "Ok" THEN Some(p.val) ELSE None
                ELSE conn.port
        security == IF HasAttr(e, "broker_security_type")
                    THEN BrokerSecurityType_from_str(e.attrs["broker_security_type"])
                    ELSE Ok(conn.broker_security_type)
        present == {f \in SecretFields : HasAttr(e, f)}
        dec == [f \in present |-> decrypt_password(e.attrs[f], now)]
        failed == {f \in present : dec[f].tag # "Ok"}
    IN  IF security.tag # "Ok" THEN security
        ELSE IF failed # {} THEN dec[FirstFailed(failed)]
        ELSE Ok([conn EXCEPT
                   !.name = name, !.id = id, !.server_group_id = group,
                   !.host = host, !.port = port,
                   !.broker_security_type = security.val,
                   !.secrets = [f \in SecretFields |->
                                  IF f \in present THEN Some(dec[f].val) ELSE None]])

\* The topic arm of from_xml: the TopicDecoderConfig read from the attributes.
TopicConfigOf(e) == [f \in TopicFields |-> IF HasAttr(e, f) THEN Some(e.attrs[f]) ELSE None]

MapInsert(m, k, v) == [x \in DOMAIN m \cup {k} |-> IF x = k THEN v ELSE m[x]]

\* The event loop of from_xml from event i on. st holds the flags, the
\* connection under construction and self.connections.
RECURSIVE FromXmlLoop(_, _, _, _)
FromXmlLoop(events, i, st, now) ==
    IF i > Len(events) THEN [res |-> Ok(<<>>), connections |-> st.connections]
    ELSE
    LET e == events[i]
        next(st2) == FromXmlLoop(events, i + 1, st2, now)
        cur == st.current_connection
    IN  IF e.type = "Err" THEN [res |-> Err("XML parse error"), connections |-> st.connections]
        ELSE IF e.type = "Start" THEN
            IF e.name = "connections" THEN next([st EXCEPT !.in_connections = TRUE])
            ELSE IF e.name = "connection" /\ st.in_connections THEN
                LET parsed == parse_connection_start(e, now)
                IN  IF parsed.tag # "Ok"
                    THEN [res |-> parsed, connections |-> st.connections]
                    ELSE next([st EXCEPT !.in_connection = TRUE,
                                         !.current_connection = Some(parsed.val)])
            ELSE IF e.name = "folders" /\ st.in_connection THEN next([st EXCEPT !.in_folders = TRUE])
            ELSE IF e.name = "topics" /\ st.in_connection THEN next([st EXCEPT !.in_topics = TRUE])
            ELSE IF e.name = "folder" /\ st.in_folders THEN
                IF cur # None /\ HasAttr(e, "name")
                THEN next([st EXCEPT !.current_connection =
                              Some([cur.val EXCEPT !.folders = Append(@, e.attrs["name"])])])
                ELSE next(st)
            ELSE IF e.name = "topic" /\ st.in_topics THEN
                IF cur # None /\ HasAttr(e, "name")
                THEN next([st EXCEPT !.current_connection =
                              Some([cur.val EXCEPT !.topic_configs =
                                      MapInsert(@, e.attrs["name"], TopicConfigOf(e))])])
                ELSE next(st)
            ELSE next(st)
        ELSE IF e.type = "End" THEN
            IF e.name = "connections" THEN next([st EXCEPT !.in_connections = FALSE])
            ELSE IF e.name = "connection" /\ st.in_connection THEN
                IF cur # None
                THEN next([st EXCEPT !.in_connection = FALSE,
                                     !.current_connection = None,
                                     !.connections = Append(@, cur.val)])
                ELSE next([st EXCEPT !.in_connection = FALSE])
            ELSE IF e.name = "folders" /\ st.in_connection THEN next([st EXCEPT !.in_folders = FALSE])
            ELSE IF e.name = "topics" /\ st.in_connection THEN next([st EXCEPT !.in_topics = FALSE])
            ELSE next(st)
        ELSE next(st)

\* from_xml on a store holding conns, when the clock reads `now`: the result
\* and self.connections when the call ends (by return or by panic).
from_xml(conns, events, now) ==
    FromXmlLoop(events, 1,
                [in_connections |-> FALSE, in_connection |-> FALSE,
                 current_connection |-> None,
                 in_folders |-> FALSE, in_topics |-> FALSE,
                 connections |-> conns],
                now)

\* ------------------------------------------------------------ store inputs
\* A secret too short to encrypt (filler_len > DIGEST_LEN) and the shortest
\* that encrypt_password can encode.
ShortSecret == <<112, 119>>
LongSecret == Repeat(<<80, 119>>, BUFFER_SIZE - DIGEST_LEN - 1)

NameProd == <<"P", "r", "o", "d">>
Nameprod == <<"p", "r", "o", "d">>
NameA == <<"A">>
NameB == <<"B">>
ConnNames == {NameProd, Nameprod, NameA, NameB}

\* The connection the caller builds for a name, before it picks the id.
Template(name) ==
    LET c == ServerConnectionNew(0, name)
    IN  IF name = NameProd THEN [c EXCEPT !.host = <<"h", "1">>, !.port = Some(9092)]
        ELSE IF name = Nameprod
             THEN [c EXCEPT !.host = <<"h", "2">>,
                            !.secrets = [NoSecrets EXCEPT !["keystore_password"] = Some(ShortSecret)]]
        ELSE IF name = NameA
             THEN [c EXCEPT !.host = <<"h", "1">>, !.port = Some(9093),
                            !.secrets = [NoSecrets EXCEPT !["truststore_password"] = Some(LongSecret)]]
        ELSE [c EXCEPT !.host = <<"h", "2">>, !.port = Some(9093),
                       !.folders = <<<<"f", "1">>>>,
                       !.topic_configs =
                           [n \in {<<"t", "1">>} |->
                               [f \in TopicFields |->
                                   IF f = "key_decoder" THEN Some(<<"S">>) ELSE None]]]

\* Ids a caller passes to add_connection: 0 (generate one) or an explicit id.
CallerIds == {0, 5}
NewConnections == {[Template(n) EXCEPT !.id = i] : n \in ConnNames, i \in CallerIds}

\* A <connection> element as found in a file.
FileConnection(name, id, extra) ==
    <<StartEv("connection",
              [k \in {"name", "id", "host", "port"} \cup DOMAIN extra |->
                  CASE k = "name" -> name
                    [] k = "id" -> id
                    [] k = "host" -> <<"h", "3">>
                    [] k = "port" -> <<"9", "0", "9", "2">>
                    [] OTHER -> extra[k]]),
      EndEv("connection")>>
FileDoc(elements) == <<StartEv("connections", <<>>)>> \o elements \o <<EndEv("connections")>>

\* Files on disk: two connections with one name and one id; a secret that
\* is no hex; an empty secret; a short well-formed secret buffer; a
\* well-formed connection followed by text that is no XML.
FileInputs ==
    { FileDoc(FileConnection(NameA, <<"1">>, <<>>) \o FileConnection(NameA, <<"1">>, <<>>)),
      FileDoc(FileConnection(NameB, <<"7">>, [k \in {"truststore_password"} |-> <<"z", "z">>])),
      FileDoc(FileConnection(NameB, <<"7">>, [k \in {"keystore_password"} |-> <<>>])),
      FileDoc(FileConnection(NameB, <<"x">>,
                  [k \in {"keystore_privatekey"} |-> HexEncode(<<2, 7, 7, 113, 118, 101>>)])),
      <<StartEv("connections", <<>>)>> \o FileConnection(NameProd, <<"3">>, <<>>) \o <<ErrEv>> }

\* Number of <connection> start tags of a document.
ConnElements(doc) == Cardinality({i \in 1..Len(doc) : doc[i].type = "Start" /\ doc[i].name = "connection"})

\* ---------------------------------------------------------- store: machine
CodecIdle ==
    /\ plain = <<>>
    /\ encRes = None
    /\ hex = None
    /\ hexFrom = "none"
    /\ decRuns = {}

\* Environment::new(): ServerConnectionSettings::new().
ConnInit ==
    /\ clock = 0
    /\ FilesIdle
    /\ EnvIdle
    /\ AppIdle
    /\ CodecIdle
    /\ GroupIdle
    /\ SettingsIdle
    /\ connections = ServerConnectionSettingsNew(clock).connections
    /\ next_id = ServerConnectionSettingsNew(clock).next_id
    /\ last = NoCall
    /\ pureAdd = TRUE
    /\ xml = None
    /\ fresh = None

Store == [connections |-> connections, next_id |-> next_id]

\* The clock as a call reads it: time may have passed since the last reading.
Now(now) == now \in clock..MaxClock /\ clock' = now

\* add_connection(c); the store is built before it is serialized.
AddConnection ==
    \E c \in NewConnections :
        /\ xml = None
        /\ Len(connections) < MaxConns \/ find_connection_by_name(connections, c.name) # None
        /\ c.id = 0 => next_id < MaxNextId
        /\ LET r == add_connection(connections, next_id, c)
           IN  /\ connections' = r.connections
               /\ next_id' = r.next_id
               /\ last' = [op |-> "add", arg |-> c, res |-> r.res, pre |-> Store]
               /\ pureAdd' = (pureAdd /\ (r.res.tag = "Ok" => c.id = 0))
        /\ UNCHANGED <<clock, codecVars, groupVars, settingsVars, fileVars, envVars, appVars, xml, fresh>>

\* remove_connection(id), for an id of the store or an id it does not hold.
RemoveConnection ==
    \E id \in {connections[i].id : i \in 1..Len(connections)} \cup {9} :
        /\ LET r == remove_connection(connections, next_id, id)
           IN  /\ connections' = r.connections
               /\ next_id' = r.next_id
               /\ last' = [op |-> "remove", arg |-> id, res |-> r.res]
               /\ pureAdd' = (pureAdd /\ r.res.tag # "Ok")
        /\ UNCHANGED <<clock, codecVars, groupVars, settingsVars, fileVars, envVars, appVars, xml, fresh>>

\* sort_by_name()
SortByName ==
    /\ connections' = sort_by_name(connections)
    /\ last' = [op |-> "sort"]
    /\ UNCHANGED <<clock, codecVars, groupVars, settingsVars, fileVars, envVars, appVars, next_id, pureAdd, xml, fresh>>

\* from_xml(doc) on this store, doc being a file on disk; now is the
\* reading of the system clock the decoder takes during the call.
FromXml ==
    \E doc \in FileInputs, now \in 0..MaxClock :
        /\ Len(connections) + ConnElements(doc) <= MaxConns
        /\ LET r == from_xml(connections, doc, now)
           IN  /\ connections' = r.connections
               /\ last' = [op |-> "from_xml", doc |-> doc, now |-> now,
                           res |-> r.res, pre |-> Store]
        /\ pureAdd' = FALSE
        /\ UNCHANGED <<clock, codecVars, groupVars, settingsVars, fileVars, envVars, appVars, next_id, xml, fresh>>

\* The store under any sequence of its mutating calls.
ConnNext == AddConnection \/ RemoveConnection \/ SortByName \/ FromXml

ConnSpec == ConnInit /\ [][ConnNext]_vars

\* to_xml(): the document is kept with the store it was written from.
ToXml ==
    \E now \in 0..MaxClock :
        /\ Now(now)
        /\ xml = None
        /\ Len(connections) > 0
        /\ xml' = [res |-> to_xml(connections, now), src |-> connections,
                   now |-> now, pure |-> pureAdd]
        /\ last' = [op |-> "to_xml"]
        /\ UNCHANGED <<codecVars, groupVars, settingsVars, fileVars, envVars, appVars, connections, next_id, pureAdd, fresh>>

\* ServerConnectionSettings::new() followed by from_xml(what to_xml wrote).
FromXmlFresh ==
    \E now \in 0..MaxClock :
        /\ Now(now)
        /\ xml # None
        /\ xml.res.tag = "Ok"
        /\ fresh = None
        /\ LET store == ServerConnectionSettingsNew(now)
               r == from_xml(store.connections, xml.res.val, now)
           IN  fresh' = [res |-> r.res, connections |-> r.connections,
                         next_id |-> store.next_id, now |-> now]
        /\ UNCHANGED <<codecVars, groupVars, settingsVars, fileVars, envVars, appVars, connections, next_id, last, pureAdd, xml>>

\* A store is built, saved and loaded into a fresh store.
XmlNext == AddConnection \/ ToXml \/ FromXmlFresh

XmlSpec == ConnInit /\ [][XmlNext]_vars

C5_NamesUnique ==
    \A i, j \in 1..Len(connections) :
        i # j => ~eq_ignore_ascii_case(connections[i].name, connections[j].name)

\* C6: in every state reachable by add_connection (generated or explicit
\* id), remove_connection and from_xml, no two stored connections have the
\* same id.
C6_IdsUnique ==
    \A i, j \in 1..Len(connections) : i # j => connections[i].id # connections[j].id

\* The (name, host, port, id) tuples of a connection list.
Tuples(conns) ==
    {<<conns[i].name, conns[i].host, conns[i].port, conns[i].id>> : i \in 1..Len(conns)}

\* C7: for a store built by add_connection of connections with id 0, to_xml
\* followed by from_xml into a fresh store yields the same (name, host, port)
\* tuples, each connection with the id it had after generation.
C7_ConnectionRoundTrip ==
    (xml # None /\ xml.pure)
    => /\ xml.res.tag = "Ok"
       /\ fresh # None => /\ fresh.res.tag = "Ok"
                          /\ Tuples(fresh.connections) = Tuples(xml.src)

\* The start tags of the <connection> elements of a document, in order.
ConnStarts(doc) == SelectSeq(doc, LAMBDA e : e.type = "Start" /\ e.name = "connection")

IsHexString(str) ==
    \A i \in 1..Len(str) : IsIn(str[i], DigitChars) \/ IsIn(str[i], SubSeq(LowerChars, 1, 6))

\* C8: in the output of to_xml, every secret attribute that is present is
\* the 256-character hex output of encrypt_password for that field of the
\* connection, never the plaintext held in memory; a field that is None has
\* no attribute.
C8_SecretsAreEncrypted ==
    (xml # None /\ xml.res.tag = "Ok")
    => LET starts == ConnStarts(xml.res.val)
       IN  /\ Len(starts) = Len(xml.src)
           /\ \A k \in 1..Len(starts) : \A f \in SecretFields :
                  LET secret == xml.src[k].secrets[f]
                  IN  IF secret = None THEN ~HasAttr(starts[k], f)
                      ELSE /\ HasAttr(starts[k], f)
                           /\ Len(starts[k].attrs[f]) = 2 * BUFFER_SIZE
                           /\ IsHexString(starts[k].attrs[f])
                           /\ starts[k].attrs[f] = encrypt_password(secret.val, xml.now).val
                           /\ starts[k].attrs[f] # Utf8ToString(secret.val)

\* A document was written for a store holding a connection with a secret.
C8_Witness ==
    /\ xml # None
    /\ xml.res.tag = "Ok"
    /\ \E k \in 1..Len(xml.src) : \E f \in SecretFields :
           /\ xml.src[k].secrets[f] # None
           /\ HasAttr(ConnStarts(xml.res.val)[k], f)

\* The <connection> start tags of a document with a secret attribute that
\* decrypt_password does not decode when the clock reads `now`.
Undecodable(doc, now) ==
    {e \in {doc[i] : i \in 1..Len(doc)} :
        /\ e.type = "Start"
        /\ e.name = "connection"
        /\ \E f \in SecretFields : HasAttr(e, f) /\ decrypt_password(e.attrs[f], now).tag # "Ok"}

\* C9: when a secret attribute of a connection element fails to decode,
\* from_xml returns an error and that connection is not added to the store.
C9_DecodeFailureIsError ==
    (last.op = "from_xml" /\ Undecodable(last.doc, last.now) # {})
    => /\ last.res.tag = "Err"
       /\ \A e \in Undecodable(last.doc, last.now) :
              \A i \in (Len(last.pre.connections) + 1)..Len(connections) :
                  connections[i].name # e.attrs["name"]

\* --------------------------------------------------------- groups: machine
\* Environment::new(): ServerGroupManager::new().
GroupInit ==
    /\ clock = 0
    /\ FilesIdle
    /\ EnvIdle
    /\ AppIdle
    /\ CodecIdle
    /\ ConnIdle
    /\ SettingsIdle
    /\ root = ServerGroupManagerNew.root
    /\ group_next_id = ServerGroupManagerNew.next_id
    /\ group_last = NoCall
    /\ group_returned = {}
    /\ group_xml = None
    /\ group_fresh = None

Manager == [root |-> root, next_id |-> group_next_id]

\* The ids of the groups of a tree.
RECURSIVE GroupIds(_)
RECURSIVE ChildGroupIds(_, _)
GroupIds(group) == {group.id} \cup ChildGroupIds(group.children, 1)
ChildGroupIds(children, i) ==
    IF i > Len(children) THEN {}
    ELSE (IF children[i].type = "Group" THEN GroupIds(children[i].group) ELSE {})
         \cup ChildGroupIds(children, i + 1)

GroupNames == {<<"T", "e", "a", "m">>, <<"D", "e", "v">>}
\* An id no group of the model has.
NoGroupId == 99

\* Documents handed to ServerGroupManager::from_xml: what to_xml writes for
\* a manager with the group "Team" of id 1, and an empty file.
GroupDocs ==
    { <<>>,
      <<StartEv("servergroups", <<>>),
        StartEv("servergroup", [k \in {"name", "id"} |->
                                   IF k = "name" THEN <<"R", "o", "o", "t">> ELSE <<"0">>]),
        StartEv("servergroup", [k \in {"name", "id"} |->
                                   IF k = "name" THEN <<"T", "e", "a", "m">> ELSE <<"1">>]),
        EndEv("servergroup"),
        EndEv("servergroup"),
        EndEv("servergroups")>> }

\* add_group(parent_id, name), for a parent in the tree or an unknown one.
AddGroup ==
    \E parent_id \in GroupIds(root) \cup {NoGroupId}, name \in GroupNames :
        /\ group_xml = None
        /\ save_pc = "idle"
        /\ group_next_id < MaxGroupId
        /\ LET r == add_group(Manager, parent_id, name)
           IN  /\ root' = r.root
               /\ group_next_id' = r.next_id
               /\ group_last' = [op |-> "add_group", parent_id |-> parent_id, name |-> name,
                                 res |-> r.res, pre |-> Manager, before |-> group_returned]
               /\ group_returned' = IF r.res.tag = "Ok" THEN group_returned \cup {r.res.val}
                                    ELSE group_returned
        /\ UNCHANGED <<clock, codecVars, connVars, settingsVars, fileVars, envVars, appVars, group_xml, group_fresh>>

\* remove_group(id), for the id of a group in the tree or an unknown one.
RemoveGroup ==
    \E id \in GroupIds(root) \cup {NoGroupId} :
        /\ LET r == remove_group(Manager, id)
           IN  /\ root' = r.root
               /\ group_next_id' = r.next_id
               /\ group_last' = [op |-> "remove_group", id |-> id, res |-> r.res,
                                 pre |-> Manager]
               /\ UNCHANGED group_returned
        /\ UNCHANGED <<clock, codecVars, connVars, settingsVars, fileVars, envVars, appVars, group_xml, group_fresh>>

\* from_xml(doc) on this manager.
GroupFromXml ==
    \E doc \in GroupDocs :
        /\ LET r == ServerGroupManager_from_xml(Manager, doc)
           IN  /\ root' = r.root
               /\ group_next_id' = r.next_id
               /\ group_last' = [op |-> "from_xml", doc |-> doc, res |-> r.res,
                                 pre |-> Manager]
               /\ UNCHANGED group_returned
        /\ UNCHANGED <<clock, codecVars, connVars, settingsVars, fileVars, envVars, appVars, group_xml, group_fresh>>

GroupNext == AddGroup \/ RemoveGroup \/ GroupFromXml

GroupSpec == GroupInit /\ [][GroupNext]_vars

\* C10: in every state reachable from new() by add_group, remove_group and
\* from_xml, get_group(0) and get_root() return the root group, the group of
\* id 0 named "Root" that new() created.
C10_RootIsGroupZero ==
    /\ get_root(Manager) = root
    /\ get_group(Manager, 0) = Some(root)
    /\ root.id = 0
    /\ root.name = ServerGroupManagerNew.root.name

\* Groups were added under the root and under a group, and then remove_group
\* or from_xml was called.
C10_Witness ==
    /\ group_last.op \in {"remove_group", "from_xml"}
    /\ \E i \in 1..Len(root.children) : Len(root.children[i].group.children) > 0

\* C11: remove_group(0) returns an error in every reachable state of the
\* manager and leaves the whole tree and the id counter unchanged.
C11_RemoveRootFails ==
    (group_last.op = "remove_group" /\ group_last.id = 0)
    => /\ group_last.res = Err("Cannot remove root group")
       /\ root = group_last.pre.root
       /\ group_next_id = group_last.pre.next_id

\* remove_group(0) was called on a tree that holds groups.
C11_Witness ==
    /\ group_last.op = "remove_group"
    /\ group_last.id = 0
    /\ Len(root.children) > 0

\* C12: add_group(parent_id, name) with a parent id that resolves returns a
\* fresh id strictly greater than every id returned before, and afterwards
\* get_group(id) is a group with that name and no children that is the last
\* child of the group get_group(parent_id); with a parent id that does not
\* resolve it returns an error.
C12_AddGroup ==
    group_last.op = "add_group"
    => IF get_group(group_last.pre, group_last.parent_id) # None
       THEN /\ group_last.res.tag = "Ok"
            /\ \A earlier \in group_last.before : group_last.res.val > earlier
            /\ group_last.res.val \notin GroupIds(group_last.pre.root)
            /\ LET id == group_last.res.val
                   parent == get_group(Manager, group_last.parent_id)
                   before == get_group(group_last.pre, group_last.parent_id).val
               IN  /\ get_group(Manager, id) = Some(ServerGroupNew(id, group_last.name))
                   /\ parent # None
                   /\ parent.val.children
                        = Append(before.children, GroupChild(ServerGroupNew(id, group_last.name)))
       ELSE group_last.res.tag = "Err"

\* A third group was added, under a group that is not the root.
C12_Witness ==
    /\ group_last.op = "add_group"
    /\ group_last.res.tag = "Ok"
    /\ group_last.parent_id # 0
    /\ Cardinality(group_last.before) >= 2

\* C13: after remove_group(id) returns Ok for a non-root id that was
\* present, neither that group nor any group beneath it is still in the
\* tree: get_group of it and of every former descendant returns None.
C13_RemoveDetaches ==
    (/\ group_last.op = "remove_group"
     /\ group_last.res.tag = "Ok"
     /\ group_last.id # 0
     /\ group_last.id \in GroupIds(group_last.pre.root))
    => \A gone \in GroupIds(get_group(group_last.pre, group_last.id).val) :
           get_group(Manager, gone) = None

\* The ids of the groups of a tree, one entry per group: the group, then
\* its children in order, each with all beneath it.
RECURSIVE GroupIdSeq(_)
RECURSIVE ChildGroupIdSeq(_, _)
GroupIdSeq(group) == <<group.id>> \o ChildGroupIdSeq(group.children, 1)
ChildGroupIdSeq(children, i) ==
    IF i > Len(children) THEN <<>>
    ELSE (IF children[i].type = "Group" THEN GroupIdSeq(children[i].group) ELSE <<>>)
         \o ChildGroupIdSeq(children, i + 1)

\* C14: in every state reachable from new() by add_group and remove_group,
\* exactly one group in the tree has id 0 (the root) and all non-root group
\* ids are pairwise distinct.
C14_GroupIdsUnique ==
    LET ids == GroupIdSeq(root)
    IN  /\ ids[1] = 0
        /\ \A i \in 2..Len(ids) : ids[i] # 0
        /\ \A i, j \in 1..Len(ids) : i # j => ids[i] # ids[j]

\* The tree holds three groups besides the root, one of them beneath another.
C14_Witness ==
    /\ Len(GroupIdSeq(root)) = 4
    /\ \E i \in 1..Len(root.children) : Len(root.children[i].group.children) > 0
    /\ group_last.op = "add_group"

\* ------------------------------------------------- groups: the XML form
\* ServerGroupManager::write_group: the events written for a group.
RECURSIVE write_group(_)
RECURSIVE WriteChildren(_, _)
write_group(group) ==
    <<StartEv("servergroup", [k \in {"name", "id"} |->
                                IF k = "name" THEN group.name ELSE I64ToString(group.id)])>>
    \o WriteChildren(group.children, 1)
    \o <<EndEv("servergroup")>>

\* The `for child in &group.children` loop of write_group, from child i.
WriteChildren(children, i) ==
    IF i > Len(children) THEN <<>>
    ELSE (IF children[i].type = "Group" THEN write_group(children[i].group)
          ELSE <<EmptyEv("connection", [k \in {"id"} |-> I64ToString(children[i].id)])>>)
         \o WriteChildren(children, i + 1)

\* ServerGroupManager::to_xml
ServerGroupManager_to_xml(m) ==
    Ok(<<StartEv("servergroups", <<>>)>>
       \o write_group(m.root)
       \o <<EndEv("servergroups")>>)


\* Connection ids a caller files under a group.
ConnectionRefs == {42}
\* Largest number of connection references in the tree.
MaxRefs == 1

\* The number of connection references of a tree.
RECURSIVE RefCount(_)
RECURSIVE ChildRefCount(_, _)
RefCount(group) == ChildRefCount(group.children, 1)
ChildRefCount(children, i) ==
    IF i > Len(children) THEN 0
    ELSE (IF children[i].type = "Group" THEN RefCount(children[i].group) ELSE 1)
         + ChildRefCount(children, i + 1)

\* get_group_mut(id) followed by add_child(ServerGroupChild::Connection(ref))
\* on the group it returns.
AddConnectionRef ==
    \E id \in GroupIds(root), ref \in ConnectionRefs :
        /\ group_xml = None
        /\ RefCount(root) < MaxRefs
        /\ get_group_mut(Manager, id) # None
        /\ root' = PushAt(root, id, ConnectionChild(ref)).group
        /\ group_last' = [op |-> "add_child", id |-> id, ref |-> ref]
        /\ UNCHANGED <<clock, codecVars, connVars, settingsVars, fileVars, envVars, appVars, group_next_id, group_returned,
                       group_xml, group_fresh>>

\* to_xml(): the document is kept with the manager it was written from.
GroupToXml ==
    /\ group_xml = None
    /\ group_xml' = [res |-> ServerGroupManager_to_xml(Manager), src |-> Manager]
    /\ group_last' = [op |-> "to_xml"]
    /\ UNCHANGED <<clock, codecVars, connVars, settingsVars, fileVars, envVars, appVars, root, group_next_id, group_returned,
                   group_fresh>>

\* ServerGroupManager::new() followed by from_xml(what to_xml wrote).
GroupFromXmlFresh ==
    /\ group_xml # None
    /\ group_xml.res.tag = "Ok"
    /\ group_fresh = None
    /\ LET r == ServerGroupManager_from_xml(ServerGroupManagerNew, group_xml.res.val)
       IN  group_fresh' = [res |-> r.res, manager |-> [root |-> r.root, next_id |-> r.next_id]]
    /\ UNCHANGED <<clock, codecVars, connVars, settingsVars, fileVars, envVars, appVars, root, group_next_id, group_last,
                   group_returned, group_xml>>

\* A tree is built, saved and loaded into a fresh manager.
GroupXmlNext == AddGroup \/ AddConnectionRef \/ GroupToXml \/ GroupFromXmlFresh

GroupXmlSpec == GroupInit /\ [][GroupXmlNext]_vars

\* C15: to_xml followed by from_xml into a fresh ServerGroupManager gives a
\* manager whose tree equals the serialized one; for a group "Team" of id X
\* under the root holding the single connection reference 42, get_group(X)
\* of the loaded manager is a group named "Team" with the one child
\* Connection(42).
C15_GroupRoundTrip ==
    group_fresh # None
    => /\ group_fresh.res.tag = "Ok"
       /\ group_fresh.manager.root = group_xml.src.root
       /\ \A i \in 1..Len(group_xml.src.root.children) :
              LET team == group_xml.src.root.children[i]
              IN  (/\ team.type = "Group"
                   /\ team.group.name = <<"T", "e", "a", "m">>
                   /\ team.group.children = <<ConnectionChild(42)>>)
                  => get_group(group_fresh.manager, team.group.id) = Some(team.group)

\* ------------------------------------------- config/settings_complete.rs
\* SettingDataType: the variants and their codes.
SettingDataTypes == {"Integer", "Long", "Double", "String", "Boolean", "Color"}

\* SettingDataType::as_i32 (`data_type as i32`)
as_i32(data_type) ==
    CASE data_type = "Integer" -> 1
      [] data_type = "Long" -> 2
      [] data_type = "Double" -> 3
      [] data_type = "String" -> 4
      [] data_type = "Boolean" -> 5
      [] data_type = "Color" -> 6

\* SettingDataType::from_i32
from_i32(value) ==
    IF \E t \in SettingDataTypes : as_i32(t) = value
    THEN Ok(CHOOSE t \in SettingDataTypes : as_i32(t) = value)
    ELSE Err("Unknown data type")

\* bool::to_string
BoolToString(b) == IF b THEN <<"t", "r", "u", "e">> ELSE <<"f", "a", "l", "s", "e">>

\* f64::to_string for a double held in tenths: "2" for 2.0, "1.5" for 1.5.
F64ToString(d) ==
    LET abs == IF d < 0 THEN -d ELSE d
        sign == IF d < 0 THEN <<"-">> ELSE <<>>
    IN  IF (abs % 10) = 0 THEN sign \o NatToString(abs \div 10)
        ELSE sign \o NatToString(abs \div 10) \o <<".">> \o NatToString(abs % 10)

\* The position of the first c in str, 0 if there is none.
FirstIndex(str, c) ==
    IF \E i \in 1..Len(str) : str[i] = c
    THEN CHOOSE i \in 1..Len(str) : str[i] = c /\ \A j \in 1..(i - 1) : str[j] # c
    ELSE 0

\* str::parse::<f64>() on decimal text with at most one decimal: an
\* optional sign, digits, and optionally a point and one digit. (Rust also
\* reads exponents, "inf" and "NaN"; no text of the model has them.)
ParseF64(str) ==
    LET point == FirstIndex(str, ".")
        whole == IF point = 0 THEN str ELSE SubSeq(str, 1, point - 1)
        frac == IF point = 0 THEN <<>> ELSE SubSeq(str, point + 1, Len(str))
        w == ParseI64(whole)
        negative == Len(str) > 0 /\ str[1] = "-"
    IN  IF w.tag # "Ok" THEN Err("ParseFloatError")
        ELSE IF point = 0 THEN Ok(10 * w.val)
        ELSE IF Len(frac) = 1 /\ IsIn(frac[1], DigitChars)
             THEN Ok(IF negative THEN 10 * w.val - DigitsValue(frac)
                     ELSE 10 * w.val + DigitsValue(frac))
        ELSE Err("ParseFloatError")

\* str::parse::<i32>(): the syntax of i64. (The decimal strings of the model
\* stay far below the i32 range.)
ParseI32(str) == ParseI64(str)

\* str::parse::<u8>(): an optional "+" and digits, at most 255.
ParseU8(str) ==
    LET digits == IF Len(str) > 0 /\ str[1] = "+" THEN Tail(str) ELSE str
    IN  IF Len(digits) = 0 \/ Len(digits) > 3
           \/ \E i \in 1..Len(digits) : ~IsIn(digits[i], DigitChars)
        THEN Err("ParseIntError")
        ELSE IF DigitsValue(digits) > 255 THEN Err("ParseIntError")
        ELSE Ok(DigitsValue(digits))

\* str::parse::<bool>(): exactly "true" or "false".
ParseBool(str) ==
    IF str = BoolToString(TRUE) THEN Ok(TRUE)
    ELSE IF str = BoolToString(FALSE) THEN Ok(FALSE)
    ELSE Err("ParseBoolError")

\* str::split(',')
RECURSIVE Split(_, _)
Split(str, c) ==
    LET at == FirstIndex(str, c)
    IN  IF at = 0 THEN <<str>>
        ELSE <<SubSeq(str, 1, at - 1)>> \o Split(SubSeq(str, at + 1, Len(str)), c)

\* ---------------------------------------------------------- i64 as words
\* An i64 of the settings is held as its two 32-bit words: hi and lo are the
\* high and the low word of the two's-complement pattern, each read as an
\* i32. The value is hi * 2^32 + (lo mod 2^32).
I64Words(hi, lo) == [hi |-> hi, lo |-> lo]

\* `i as i64`: sign extension.
I32AsI64(i) == I64Words(IF i < 0 THEN -1 ELSE 0, i)

\* `l as i32`: the low 32 bits.
I64AsI32(l) == l.lo

\* The two 16-bit halves of a word, high half first, as unsigned numbers.
WordLimbs(w) ==
    IF w >= 0 THEN <<w \div 65536, w % 65536>>
    ELSE LET u == (w + 2147483647) + 1
         IN  <<(u \div 65536) + 32768, u % 65536>>

\* The word of two 16-bit halves.
LimbsWord(h, l) == IF h >= 32768 THEN (h - 65536) * 65536 + l ELSE h * 65536 + l

I64Limbs(l) == WordLimbs(l.hi) \o WordLimbs(l.lo)
LimbsI64(limbs) == I64Words(LimbsWord(limbs[1], limbs[2]), LimbsWord(limbs[3], limbs[4]))

\* Two's-complement negation of a 64-bit pattern.
NegLimbs(limbs) ==
    LET x4 == (65535 - limbs[4]) + 1
        x3 == (65535 - limbs[3]) + (x4 \div 65536)
        x2 == (65535 - limbs[2]) + (x3 \div 65536)
        x1 == (65535 - limbs[1]) + (x2 \div 65536)
    IN  <<x1 % 65536, x2 % 65536, x3 % 65536, x4 % 65536>>

\* An unsigned 64-bit number divided by ten: quotient and remainder.
DivTen(limbs) ==
    LET c1 == limbs[1]
        c2 == (c1 % 10) * 65536 + limbs[2]
        c3 == (c2 % 10) * 65536 + limbs[3]
        c4 == (c3 % 10) * 65536 + limbs[4]
    IN  [q |-> <<c1 \div 10, c2 \div 10, c3 \div 10, c4 \div 10>>, r |-> c4 % 10]

RECURSIVE MagToString(_)
MagToString(limbs) ==
    LET d == DivTen(limbs)
    IN  IF d.q = <<0, 0, 0, 0>> THEN <<DigitChars[d.r + 1]>>
        ELSE MagToString(d.q) \o <<DigitChars[d.r + 1]>>

\* i64::to_string on the words of an i64.
LongToString(l) ==
    IF l.hi < 0 THEN <<"-">> \o MagToString(NegLimbs(I64Limbs(l)))
    ELSE MagToString(I64Limbs(l))

\* limbs * 10 + d on 64 bits; carry is what does not fit.
MulTenAdd(limbs, d) ==
    LET x4 == limbs[4] * 10 + d
        x3 == limbs[3] * 10 + (x4 \div 65536)
        x2 == limbs[2] * 10 + (x3 \div 65536)
        x1 == limbs[1] * 10 + (x2 \div 65536)
    IN  [limbs |-> <<x1 % 65536, x2 % 65536, x3 % 65536, x4 % 65536>>, carry |-> x1 \div 65536]

\* The number a digit string denotes, None when it has more than 64 bits.
RECURSIVE DigitsLimbs(_, _, _)
DigitsLimbs(digits, i, limbs) ==
    IF i > Len(digits) THEN Some(limbs)
    ELSE LET m == MulTenAdd(limbs, IndexIn(digits[i], DigitChars) - 1)
         IN  IF m.carry # 0 THEN None ELSE DigitsLimbs(digits, i + 1, m.limbs)

\* str::parse::<i64>() onto the words of an i64: an optional sign, at least
\* one digit, Err when the number is outside -2^63 .. 2^63 - 1.
ParseLong(str) ==
    LET signed == Len(str) > 0 /\ str[1] \in {"+", "-"}
        negative == signed /\ str[1] = "-"
        digits == IF signed THEN Tail(str) ELSE str
    IN  IF Len(digits) = 0 \/ \E i \in 1..Len(digits) : ~IsIn(digits[i], DigitChars)
        THEN Err("ParseIntError")
        ELSE LET mag == DigitsLimbs(digits, 1, <<0, 0, 0, 0>>)
             IN  IF mag = None THEN Err("ParseIntError")
                 ELSE IF mag.val[1] < 32768
                      THEN Ok(LimbsI64(IF negative THEN NegLimbs(mag.val) ELSE mag.val))
                 ELSE IF negative /\ mag.val = <<32768, 0, 0, 0>> THEN Ok(LimbsI64(mag.val))
                 ELSE Err("ParseIntError")

\* SettingValue::to_xml_string
to_xml_string(value) ==
    CASE value.variant = "Integer" -> I64ToString(value.i)
      [] value.variant = "Long" -> LongToString(value.l)
      [] value.variant = "Double" -> F64ToString(value.d)
      [] value.variant = "String" -> value.s
      [] value.variant = "Boolean" -> BoolToString(value.b)
      [] value.variant = "Color" ->
             NatToString(value.r) \o <<",">> \o NatToString(value.g) \o <<",">> \o NatToString(value.b)

\* SettingValue::from_string
from_string(s, data_type) ==
    CASE data_type = "Integer" ->
             LET p == ParseI32(s)
             IN  IF p.tag = "Ok" THEN Ok(IntegerValue(p.val)) ELSE Err("Invalid integer")
      [] data_type = "Long" ->
             LET p == ParseLong(s)
             IN  IF p.tag = "Ok" THEN Ok(LongValue(p.val)) ELSE Err("Invalid long")
      [] data_type = "Double" ->
             LET p == ParseF64(s)
             IN  IF p.tag = "Ok" THEN Ok(DoubleValue(p.val)) ELSE Err("Invalid double")
      [] data_type = "String" -> Ok(StringValue(s))
      [] data_type = "Boolean" ->
             LET low == to_lowercase(s)
             IN  IF low = BoolToString(TRUE) \/ low = <<"1">> THEN Ok(BooleanValue(TRUE))
                 ELSE IF low = BoolToString(FALSE) \/ low = <<"0">> THEN Ok(BooleanValue(FALSE))
                 ELSE Err("Invalid boolean")
      [] data_type = "Color" ->
             LET parts == Split(s, ",")
             IN  IF Len(parts) = 3
                 THEN LET r == ParseU8(parts[1])
                          g == ParseU8(parts[2])
                          b == ParseU8(parts[3])
                      IN  IF r.tag # "Ok" THEN Err("Invalid color r")
                          ELSE IF g.tag # "Ok" THEN Err("Invalid color g")
                          ELSE IF b.tag # "Ok" THEN Err("Invalid color b")
                          ELSE Ok(ColorValue(r.val, g.val, b.val))
                 ELSE Err("Invalid color format")

\* UserSettings::get
get(settings_map, key) ==
    IF key \in DOMAIN settings_map THEN Some(settings_map[key]) ELSE None

\* get_int with a checked conversion: a Long outside the i32 range is an error.
get_int_checked(settings_map, key) ==
    LET found == get(settings_map, key)
    IN  IF found = None THEN Err("not an integer")
        ELSE IF found.val.value.variant = "Integer" THEN Ok(found.val.value.i)
        ELSE IF found.val.value.variant = "Long"
             THEN IF found.val.value.l = I32AsI64(found.val.value.l.lo)
                  THEN Ok(found.val.value.l.lo)
                  ELSE Err("out of range")
        ELSE Err("not an integer")

\* UserSettings::get_int
get_int(settings_map, key) ==
    LET found == get(settings_map, key)
    IN  IF found = None THEN Err("not an integer")
        ELSE IF found.val.value.variant = "Integer" THEN Ok(found.val.value.i)
        ELSE IF found.val.value.variant = "Long" THEN Ok(I64AsI32(found.val.value.l))
        ELSE Err("not an integer")

\* UserSettings::get_long
get_long(settings_map, key) ==
    LET found == get(settings_map, key)
    IN  IF found = None THEN Err("not a long")
        ELSE IF found.val.value.variant = "Long" THEN Ok(found.val.value.l)
        ELSE IF found.val.value.variant = "Integer" THEN Ok(I32AsI64(found.val.value.i))
        ELSE Err("not a long")

\* get_string with every variant read through its string form.
get_string_coercing(settings_map, key) ==
    LET found == get(settings_map, key)
    IN  IF found = None THEN Err("not a string") ELSE Ok(to_xml_string(found.val.value))

\* UserSettings::get_string
get_string(settings_map, key) ==
    LET found == get(settings_map, key)
    IN  IF found = None THEN Err("not a string")
        ELSE IF found.val.value.variant = "String" THEN Ok(found.val.value.s)
        ELSE IF found.val.value.variant = "Boolean" THEN Ok(BoolToString(found.val.value.b))
        ELSE Err("not a string")

\* UserSettings::get_bool
get_bool(settings_map, key) ==
    LET found == get(settings_map, key)
    IN  IF found = None THEN Err("not a boolean")
        ELSE IF found.val.value.variant = "Boolean" THEN Ok(found.val.value.b)
        ELSE Err("not a boolean")

\* UserSettings::set: HashMap::insert of the setting built from the arguments.
set(settings_map, key, value, dynamic, data_type, persisted) ==
    [k \in DOMAIN settings_map \cup {key} |->
        IF k = key THEN Setting(key, value, dynamic, data_type, persisted)
        ELSE settings_map[k]]

\* keys.sort(): ascending by String::cmp.
RECURSIVE InsertKey(_, _)
InsertKey(sorted, key) ==
    IF Len(sorted) = 0 THEN <<key>>
    ELSE IF StrLess(key, sorted[1]) THEN <<key>> \o sorted
    ELSE <<sorted[1]>> \o InsertKey(Tail(sorted), key)

RECURSIVE SortKeys(_)
SortKeys(keys) ==
    IF Len(keys) = 0 THEN <<>>
    ELSE InsertKey(SortKeys(SubSeq(keys, 1, Len(keys) - 1)), keys[Len(keys)])

\* The <setting/> element to_xml writes for a setting.
SettingRecord(setting) ==
    EmptyEv("setting",
        [a \in {"name", "value", "dynamic", "data_type", "persisted"} |->
            CASE a = "name" -> setting.key
              [] a = "value" -> to_xml_string(setting.value)
              [] a = "dynamic" -> BoolToString(setting.dynamic)
              [] a = "data_type" -> I64ToString(as_i32(setting.data_type))
              [] a = "persisted" -> BoolToString(setting.persisted)])

\* The loop of to_xml over the keys in the order given.
RECURSIVE WriteSettings(_, _, _)
WriteSettings(settings_map, keys, i) ==
    IF i > Len(keys) THEN <<>>
    ELSE (IF settings_map[keys[i]].persisted THEN <<SettingRecord(settings_map[keys[i]])>>
          ELSE <<>>)
         \o WriteSettings(settings_map, keys, i + 1)

\* to_xml writing the records in the order the HashMap yields its keys.
UserSettings_to_xml_unsorted(settings_map, keys) ==
    Ok(<<StartEv("settings", <<>>)>>
       \o WriteSettings(settings_map, keys, 1)
       \o <<EndEv("settings")>>)

\* UserSettings::to_xml; keys is self.settings.keys() in the order the
\* HashMap yields them, which is unspecified.
UserSettings_to_xml(settings_map, keys) ==
    Ok(<<StartEv("settings", <<>>)>>
       \o WriteSettings(settings_map, SortKeys(keys), 1)
       \o <<EndEv("settings")>>)

\* The End(setting) arm of from_xml: the setting built from the five
\* attribute texts, or the error of the first `?` that fails.
ParseSetting(attrs) ==
    LET code == ParseI32(attrs["data_type"])
    IN  IF code.tag # "Ok" THEN Err("ParseIntError")
        ELSE LET data_type == from_i32(code.val)
             IN  IF data_type.tag # "Ok" THEN data_type
                 ELSE LET setting_value == from_string(attrs["value"], data_type.val)
                          dynamic == ParseBool(attrs["dynamic"])
                          persisted == ParseBool(attrs["persisted"])
                      IN  IF setting_value.tag # "Ok" THEN setting_value
                          ELSE Ok(Setting(attrs["name"], setting_value.val,
                                          IF dynamic.tag = "Ok" THEN dynamic.val ELSE FALSE,
                                          data_type.val,
                                          IF persisted.tag = "Ok" THEN persisted.val ELSE TRUE))

\* The attributes the Start(setting) arm of from_xml asks for, in its order.
SettingAttrs == <<"name", "value", "dynamic", "data_type", "persisted">>

\* The event loop of UserSettings::from_xml from event i on: the result and
\* self.settings when the call returns.
RECURSIVE SettingsFromXmlLoop(_, _, _, _)
SettingsFromXmlLoop(events, i, current_setting, settings_map) ==
    IF i > Len(events) THEN [res |-> Ok(<<>>), settings |-> settings_map]
    ELSE
    LET e == events[i]
    IN  IF e.type = "Err" THEN [res |-> Err("XML parse error"), settings |-> settings_map]
        ELSE IF e.type = "Start" /\ e.name = "setting" THEN
            IF \E k \in 1..Len(SettingAttrs) : ~HasAttr(e, SettingAttrs[k])
            THEN [res |-> Err("Missing attribute"), settings |-> settings_map]
            ELSE SettingsFromXmlLoop(events, i + 1,
                                     Some([a \in DOMAIN e.attrs |-> e.attrs[a]]), settings_map)
        ELSE IF e.type = "End" /\ e.name = "setting" /\ current_setting # None THEN
            LET parsed == ParseSetting(current_setting.val)
            IN  IF parsed.tag # "Ok" THEN [res |-> parsed, settings |-> settings_map]
                ELSE SettingsFromXmlLoop(events, i + 1, None,
                         set(settings_map, parsed.val.key, parsed.val.value, parsed.val.dynamic,
                             parsed.val.data_type, parsed.val.persisted))
        ELSE SettingsFromXmlLoop(events, i + 1, current_setting, settings_map)

\* UserSettings::from_xml
UserSettings_from_xml(settings_map, events) == SettingsFromXmlLoop(events, 1, None, settings_map)

\* ------------------------------------------------------- settings: inputs
KeyTheme == <<"t", "h", "e", "m", "e">>
KeyZoom == <<"Z", "o", "o", "m">>
\* A key no call stores.
KeyMissing == <<"n", "o", "n", "e">>
Dark == <<"d", "a", "r", "k">>

\* 2^32 + 5 and -(2^33) + 2^31 + 9: two i64 values outside the i32 range,
\* the low word of the second with its top bit set.
BigLong == I64Words(1, 5)
NegativeLong == I64Words(-2, -2147483639)

\* The argument lists of the set calls: an Integer over a default, values of
\* every variant under new keys, persisted or not, and one call whose
\* data_type is not the variant of its value.
SetArgs ==
    { Setting(KeyFontSize, IntegerValue(5), FALSE, "Integer", TRUE),
      Setting(KeyTheme, StringValue(Dark), TRUE, "String", TRUE),
      Setting(KeyTheme, IntegerValue(5), TRUE, "String", TRUE),
      Setting(KeyTheme, ColorValue(1, 2, 3), TRUE, "Color", FALSE),
      Setting(KeyZoom, DoubleValue(15), TRUE, "Double", FALSE),
      Setting(KeyZoom, LongValue(I32AsI64(7)), TRUE, "Long", TRUE),
      Setting(KeyZoom, LongValue(BigLong), TRUE, "Long", TRUE),
      Setting(KeyTheme, LongValue(NegativeLong), FALSE, "Long", TRUE),
      Setting(KeyZoom, BooleanValue(FALSE), FALSE, "Boolean", TRUE) }

\* A <setting ...></setting> element of a file.
SettingElement(name, value, dynamic, data_type, persisted) ==
    <<StartEv("setting",
              [a \in {"name", "value", "dynamic", "data_type", "persisted"} |->
                  CASE a = "name" -> name
                    [] a = "value" -> value
                    [] a = "dynamic" -> dynamic
                    [] a = "data_type" -> data_type
                    [] a = "persisted" -> persisted]),
      EndEv("setting")>>

SettingsDoc(elements) == <<StartEv("settings", <<>>)>> \o elements \o <<EndEv("settings")>>

\* Files handed to from_xml: a well-formed record; a record whose value is
\* no integer between two well-formed ones; a record of data_type 9 before a
\* well-formed one; a record without the persisted attribute; and what
\* to_xml writes for the defaults; and a well-formed record followed by text
\* that is no XML.
SettingsDocs ==
    { SettingsDoc(SettingElement(KeyTheme, Dark, <<"x">>, <<"4">>, BoolToString(FALSE))),
      SettingsDoc(SettingElement(KeyZoom, <<"7">>, BoolToString(TRUE), <<"2">>, BoolToString(TRUE))
                  \o SettingElement(KeyTheme, <<"a", "b", "c">>, BoolToString(TRUE), <<"1">>,
                                    BoolToString(TRUE))
                  \o SettingElement(KeyFontSize, <<"1", "4">>, BoolToString(FALSE), <<"1">>,
                                    BoolToString(TRUE))),
      SettingsDoc(SettingElement(KeyZoom, <<"1", ".", "5">>, BoolToString(TRUE), <<"9">>,
                                 BoolToString(TRUE))
                  \o SettingElement(KeyTheme, <<"1", ",", "2", ",", "3">>, BoolToString(TRUE),
                                    <<"6">>, BoolToString(TRUE))),
      SettingsDoc(<<StartEv("setting", [a \in {"name", "value", "dynamic", "data_type"} |->
                                           IF a = "name" THEN KeyZoom ELSE <<"1">>]),
                    EndEv("setting")>>),
      UserSettings_to_xml(UserSettingsNew, <<KeyFontSize, KeyConfirmExit, KeyKeyType>>).val,
      <<StartEv("settings", <<>>)>>
          \o SettingElement(KeyFontSize, <<"5">>, BoolToString(FALSE), <<"1">>,
                            BoolToString(TRUE))
          \o <<ErrEv>> }

\* The orders in which a HashMap may yield the keys of a map.
KeyOrders(settings_map) ==
    LET n == Cardinality(DOMAIN settings_map)
    IN  {order \in [1..n -> DOMAIN settings_map] :
            \A i, j \in 1..n : i # j => order[i] # order[j]}

\* ------------------------------------------------------ settings: machine
\* Environment::new(): UserSettings::new().
SettingsInit ==
    /\ clock = 0
    /\ FilesIdle
    /\ EnvIdle
    /\ AppIdle
    /\ CodecIdle
    /\ ConnIdle
    /\ GroupIdle
    /\ settings = UserSettingsNew
    /\ settings_last = NoCall
    /\ settings_read = None

\* set(key, value, dynamic, data_type, persisted)
Set ==
    \E a \in SetArgs :
        /\ settings' = set(settings, a.key, a.value, a.dynamic, a.data_type, a.persisted)
        /\ settings_last' = [op |-> "set", arg |-> a]
        /\ settings_read' = None
        /\ UNCHANGED <<clock, codecVars, connVars, groupVars, fileVars, envVars, appVars>>

\* from_xml(doc) on these settings.
SettingsFromXml ==
    \E doc \in SettingsDocs :
        /\ LET r == UserSettings_from_xml(settings, doc)
           IN  /\ settings' = r.settings
               /\ settings_last' = [op |-> "from_xml", doc |-> doc, res |-> r.res,
                                    pre |-> settings]
        /\ settings_read' = None
        /\ UNCHANGED <<clock, codecVars, connVars, groupVars, fileVars, envVars, appVars>>

\* get_int(key), get_long(key), get_string(key) and get_bool(key).
Get ==
    \E key \in DOMAIN settings \cup {KeyMissing} :
        /\ settings_read' = [op |-> "get", key |-> key,
                             get_int |-> get_int(settings, key),
                             get_long |-> get_long(settings, key),
                             get_string |-> get_string(settings, key),
                             get_bool |-> get_bool(settings, key)]
        /\ UNCHANGED <<clock, codecVars, connVars, groupVars, fileVars, envVars, appVars, settings, settings_last>>

\* to_xml(), the HashMap yielding its keys in some order; taken as the
\* first read after a change.
SettingsToXml ==
    /\ settings_read = None
    /\ \E keys \in KeyOrders(settings) :
        /\ settings_read' = [op |-> "to_xml", res |-> UserSettings_to_xml(settings, keys)]
        /\ UNCHANGED <<clock, codecVars, connVars, groupVars, fileVars, envVars, appVars, settings, settings_last>>

\* to_xml() of these settings, and from_xml of its output on a registry that
\* UserSettings::new() has just built (a restart). to_xml sorts the keys, so
\* one order of the HashMap stands for all of them.
SettingsRoundTrip ==
    /\ settings_read = None
    /\ LET written == UserSettings_to_xml(settings, TopicSeq(DOMAIN settings))
        IN  /\ settings_read' = [op |-> "round_trip", xml |-> written,
                                 fresh |-> UserSettings_from_xml(UserSettingsNew, written.val)]
            /\ UNCHANGED <<clock, codecVars, connVars, groupVars, fileVars, envVars, appVars, settings, settings_last>>

SettingsNext == Set \/ SettingsFromXml \/ Get \/ SettingsToXml \/ SettingsRoundTrip

SettingsSpec == SettingsInit /\ [][SettingsNext]_vars

\* C16: after set(k, SettingValue::Integer(n), ...), get_int(k) returns n
\* and get_string(k) returns the type-mismatch error; get_string succeeds
\* only when the stored variant is String or Boolean.
C16_TypedGetters ==
    (settings_read # None /\ settings_read.op = "get")
    => /\ (/\ settings_last.op = "set"
           /\ settings_last.arg.key = settings_read.key
           /\ settings_last.arg.value.variant = "Integer")
          => /\ settings_read.get_int = Ok(settings_last.arg.value.i)
             /\ settings_read.get_string.tag = "Err"
       /\ settings_read.get_string.tag = "Ok"
          => /\ settings_read.key \in DOMAIN settings
             /\ settings[settings_read.key].value.variant \in {"String", "Boolean"}

\* A key was read right after set stored an Integer under it.
C16_Witness ==
    /\ settings_read # None
    /\ settings_read.op = "get"
    /\ settings_last.op = "set"
    /\ settings_last.arg.key = settings_read.key
    /\ settings_last.arg.value.variant = "Integer"
    /\ settings_read.get_int.tag = "Ok"

\* C17: in every state reachable from new() by set and from_xml, each stored
\* setting's data_type code is the code of its value's variant.
C17_TypeCodeMatchesValue ==
    \A k \in DOMAIN settings :
        as_i32(settings[k].data_type) = as_i32(settings[k].value.variant)

\* The setting records of a file: the attribute maps of its <setting> start
\* tags that carry all five attributes.
SettingRecords(doc) ==
    {doc[i].attrs : i \in {j \in 1..Len(doc) :
                              /\ doc[j].type = "Start"
                              /\ doc[j].name = "setting"
                              /\ \A k \in 1..Len(SettingAttrs) : HasAttr(doc[j], SettingAttrs[k])}}

\* C18: when a settings file has one setting record whose value cannot be
\* parsed for its declared data_type (or whose data_type is not 1..6),
\* from_xml still loads every well-formed record of the file, those before
\* and those after the bad one.
C18_FaultIsolation ==
    (/\ settings_last.op = "from_xml"
     /\ Cardinality({a \in SettingRecords(settings_last.doc) : ParseSetting(a).tag # "Ok"}) = 1)
    => \A a \in SettingRecords(settings_last.doc) :
           ParseSetting(a).tag = "Ok"
           => /\ a["name"] \in DOMAIN settings
              /\ settings[a["name"]] = ParseSetting(a).val

\* C19: to_xml emits exactly one record for each setting with persisted ==
\* true and none for a setting with persisted == false, in ascending order
\* of key, whatever order the map yields its keys in: the text is a function
\* of the contents.
C19_ToXmlSortedPersisted ==
    (settings_read # None /\ settings_read.op = "to_xml")
    => /\ settings_read.res.tag = "Ok"
       /\ LET doc == settings_read.res.val
              records == SubSeq(doc, 2, Len(doc) - 1)
          IN  /\ doc[1] = StartEv("settings", <<>>)
              /\ doc[Len(doc)] = EndEv("settings")
              /\ \A i \in 1..Len(records) :
                     /\ records[i].attrs["name"] \in DOMAIN settings
                     /\ records[i] = SettingRecord(settings[records[i].attrs["name"]])
              /\ \A i \in 1..(Len(records) - 1) :
                     StrLess(records[i].attrs["name"], records[i + 1].attrs["name"])
              /\ {records[i].attrs["name"] : i \in 1..Len(records)}
                     = {k \in DOMAIN settings : settings[k].persisted}

\* to_xml ran on settings holding a key that sorts before the defaults and
\* a setting that is not persisted.
C19_Witness ==
    /\ settings_read # None
    /\ settings_read.op = "to_xml"
    /\ KeyZoom \in DOMAIN settings
    /\ settings[KeyZoom].persisted
    /\ \E k \in DOMAIN settings : ~settings[k].persisted

\* --------------------------------------------- save_to_file and the disk
\* save_to_file(path) runs in steps a crash can fall between: to_xml and
\* the File::create of std::fs::write, which truncates the file; the
\* write calls of write_all, each taking some more of the text; the return.
\* A text is the sequence of its XML events.

\* let xml = self.to_xml()?; std::fs::write: File::create(path)
SaveCreate ==
    /\ save_pc = "idle"
    /\ ServerGroupManager_to_xml(Manager).tag = "Ok"
    /\ save_new' = ServerGroupManager_to_xml(Manager).val
    /\ save_prev' = disk
    /\ disk' = Some(<<>>)
    /\ save_pc' = "writing"
    /\ UNCHANGED <<clock, codecVars, connVars, groupVars, settingsVars, envVars, appVars>>

\* std::fs::write: one write call of write_all, which takes n more events.
SaveWrite ==
    /\ save_pc = "writing"
    /\ \E n \in 1..(Len(save_new) - Len(disk.val)) :
           disk' = Some(SubSeq(save_new, 1, Len(disk.val) + n))
    /\ UNCHANGED <<clock, codecVars, connVars, groupVars, settingsVars, envVars, appVars,
                   save_pc, save_new, save_prev>>

\* save_to_file returns Ok(()) once write_all has written the whole text.
SaveReturn ==
    /\ save_pc = "writing"
    /\ disk = Some(save_new)
    /\ save_pc' = "idle"
    /\ UNCHANGED <<clock, codecVars, connVars, groupVars, settingsVars, envVars, appVars,
                   disk, save_new, save_prev>>

\* The process dies; what is on disk stays.
Crash ==
    /\ save_pc # "crashed"
    /\ save_pc' = "crashed"
    /\ UNCHANGED <<clock, codecVars, connVars, groupVars, settingsVars, envVars, appVars,
                   disk, save_new, save_prev>>

\* Groups are added and the tree is saved, until the process dies.
SaveNext == AddGroup \/ SaveCreate \/ SaveWrite \/ SaveReturn \/ Crash

SaveSpec == GroupInit /\ [][SaveNext]_vars

\* C20: saving is atomic per file: if the process crashes at any point
\* during a save, the file on disk holds either its complete previous
\* content or its complete new content, never a partial file.
C20_SaveIsAtomic ==
    save_pc = "crashed" => (disk = save_prev \/ disk = Some(save_new))

\* ------------------------------------------------- codec: buffer and errors
\* C21: buffer layout. For a plaintext of n bytes (0 <= n <= 126)
\* encrypt_password returns the hex form of a BUFFER_SIZE-byte buffer whose
\* byte 0 is filler_len = 127 - n, whose bytes [1, 1 + filler_len) are the
\* filler and whose last n bytes are the plaintext XOR the keystream.
C21_BufferLayout ==
    encRes # None =>
        /\ encRes.tag = "Ok"
        /\ HexDecode(encRes.val).tag = "Ok"
        /\ LET buf == HexDecode(encRes.val).val
               n == Len(plain)
               filler_len == BUFFER_SIZE - 1 - n
           IN  /\ Len(buf) = BUFFER_SIZE
               /\ buf[1] = filler_len
               /\ \E now \in 0..MaxClock :
                    LET key == generate_key(n, now)
                    IN  /\ generate_filler(key, filler_len)
                             = Ok([k \in 1..filler_len |-> buf[k + 1]])
                        /\ \A i \in 1..n :
                             buf[1 + filler_len + i] = BitXor(plain[i], BitAnd(key[i], 255))

\* C22: decrypt_password reports every bad input as an Err value and never
\* aborts: a hex string that is no hex, has odd length, is empty, or whose
\* first byte is at least the number of bytes after it, yields Err.
C22_DecryptNeverAborts ==
    \A r \in decRuns :
        /\ r.res.tag \in {"Ok", "Err"}
        /\ LET decoded == HexDecode(hex)
           IN  (\/ decoded.tag # "Ok"
                \/ Len(decoded.val) = 0
                \/ decoded.val[1] > Len(decoded.val) - 1) => r.res.tag = "Err"

\* ------------------------------------------------ settings: coercions, files
\* C23: typed-accessor coercions. get_int on a Long returns its low 32 bits
\* read as signed, get_long on an Integer returns it sign-extended, get_string
\* on a Boolean returns "true" or "false", get_bool succeeds only on a
\* Boolean; the getters return a value of their own variant as it is, and
\* every other variant/accessor pair and every missing key is an error.
C23_Coercions ==
    (settings_read # None /\ settings_read.op = "get")
    => LET key == settings_read.key
       IN  IF key \notin DOMAIN settings
           THEN /\ settings_read.get_int.tag = "Err"
                /\ settings_read.get_long.tag = "Err"
                /\ settings_read.get_string.tag = "Err"
                /\ settings_read.get_bool.tag = "Err"
           ELSE LET v == settings[key].value
                IN  /\ CASE v.variant = "Integer" -> settings_read.get_int = Ok(v.i)
                         [] v.variant = "Long" ->
                                /\ settings_read.get_int.tag = "Ok"
                                /\ settings_read.get_int.val = v.l.lo
                                /\ I64Limbs(I32AsI64(settings_read.get_int.val))[3] = I64Limbs(v.l)[3]
                                /\ I64Limbs(I32AsI64(settings_read.get_int.val))[4] = I64Limbs(v.l)[4]
                         [] OTHER -> settings_read.get_int.tag = "Err"
                    /\ CASE v.variant = "Long" -> settings_read.get_long = Ok(v.l)
                         [] v.variant = "Integer" ->
                                /\ settings_read.get_long.tag = "Ok"
                                /\ settings_read.get_long.val.lo = v.i
                                /\ settings_read.get_long.val.hi = (IF v.i < 0 THEN -1 ELSE 0)
                         [] OTHER -> settings_read.get_long.tag = "Err"
                    /\ CASE v.variant = "String" -> settings_read.get_string = Ok(v.s)
                         [] v.variant = "Boolean" ->
                                settings_read.get_string
                                    = Ok(IF v.b THEN <<"t", "r", "u", "e">>
                                         ELSE <<"f", "a", "l", "s", "e">>)
                         [] OTHER -> settings_read.get_string.tag = "Err"
                    /\ CASE v.variant = "Boolean" -> settings_read.get_bool = Ok(v.b)
                         [] OTHER -> settings_read.get_bool.tag = "Err"

\* A key holding a Long outside the i32 range was read.
C23_Witness ==
    /\ settings_read # None
    /\ settings_read.op = "get"
    /\ settings_read.key \in DOMAIN settings
    /\ settings[settings_read.key].value.variant = "Long"
    /\ settings[settings_read.key].value.l.hi \notin {0, -1}
    /\ settings_read.get_int.tag = "Ok"

\* C24: settings file round trip. Every persisted setting of a registry is
\* read back from what to_xml wrote: from_xml of the text on a fresh registry
\* returns Ok and leaves each persisted key with the same value, the same
\* dynamic flag and the same type code.
C24_SettingsRoundTrip ==
    (settings_read # None /\ settings_read.op = "round_trip")
    => /\ settings_read.xml.tag = "Ok"
       /\ settings_read.fresh.res.tag = "Ok"
       /\ \A k \in DOMAIN settings :
            settings[k].persisted
            => /\ k \in DOMAIN settings_read.fresh.settings
               /\ settings_read.fresh.settings[k].value = settings[k].value
               /\ settings_read.fresh.settings[k].dynamic = settings[k].dynamic
               /\ as_i32(settings_read.fresh.settings[k].data_type) = as_i32(settings[k].data_type)

\* ------------------------------------------- store: folders, topics, faults
\* C25: folders and topic configurations survive the connection round trip.
\* After to_xml and from_xml into a fresh store, each connection has the same
\* folder names in the same order and the same map from topic name to
\* decoder configuration, absent optional fields being None.
C25_FoldersTopicsRoundTrip ==
    (fresh # None /\ fresh.res.tag = "Ok")
    => /\ Len(fresh.connections) = Len(xml.src)
       /\ \A i \in 1..Len(xml.src) :
            /\ fresh.connections[i].folders = xml.src[i].folders
            /\ DOMAIN fresh.connections[i].topic_configs = DOMAIN xml.src[i].topic_configs
            /\ \A n \in DOMAIN xml.src[i].topic_configs :
                 \A f \in TopicFields :
                    fresh.connections[i].topic_configs[n][f] = xml.src[i].topic_configs[n][f]

\* --------------------------------------------------- groups: frame and order
\* C26: a failed add_group changes nothing. When add_group returns the
\* unknown-parent error, the tree and the id counter next_id are as they
\* were before the call.
C26_FailedAddGroupChangesNothing ==
    (group_last.op = "add_group" /\ group_last.res.tag = "Err")
    => /\ root = group_last.pre.root
       /\ group_next_id = group_last.pre.next_id

\* C27: group serialization order. In what to_xml writes, every group has
\* its name and id on its start tag, then all of its child groups, and only
\* then its connection elements: no connection element of a group is
\* followed by the start tag of a child group.
C27_GroupsBeforeConnections ==
    (group_xml # None /\ group_xml.res.tag = "Ok")
    => LET doc == group_xml.res.val
       IN  /\ \A i \in 1..Len(doc) :
                (doc[i].type = "Start" /\ doc[i].name = "servergroup")
                => DOMAIN doc[i].attrs = {"name", "id"}
           /\ \A i \in 1..(Len(doc) - 1) :
                ~(/\ doc[i].type = "Empty"
                  /\ doc[i].name = "connection"
                  /\ doc[i + 1].type = "Start"
                  /\ doc[i + 1].name = "servergroup")

\* ------------------------------------------------------- loading the files
\* Environment loads its files: from_xml of the connection store and from_xml
\* of the settings registry, each on the file it is given.
LoadNext == FromXml \/ SettingsFromXml

LoadSpec == ConnInit /\ [][LoadNext]_vars

\* C28: a whole-file failure leaves nothing of the file behind. When from_xml
\* returns the XML parse error, the connection store holds no connection
\* taken from that file and the settings registry no setting taken from it:
\* both are as they were before the call, even when well-formed records
\* precede the malformed part.
C28_ParseFailureFallsBack ==
    /\ (last.op = "from_xml" /\ last.res = Err("XML parse error"))
       => connections = last.pre.connections
    /\ (settings_last.op = "from_xml" /\ settings_last.res = Err("XML parse error"))
       => settings = settings_last.pre

\* ------------------------------------------------------- tauri_commands.rs
\* AppState::get_connection, add_connection and remove_connection; each
\* takes the mutex of AppState.connections for its own duration only.
AppState_get_connection(conns, id) == IF id \in DOMAIN conns THEN Some(conns[id]) ELSE None
AppState_add_connection(conns, id, mapper) == MapInsert(conns, id, mapper)
AppState_remove_connection(conns, id) == [x \in DOMAIN conns \ {id} |-> conns[x]]

\* The server ids the commands are invoked with.
ServerIds == {7, 8}

\* connect_to_server(id), first step: `self.state.get_connection(id).is_some()`
\* and the early return of the already-connected error.
ConnectCheck ==
    \E t \in Callers, id \in ServerIds :
        /\ app_calls[t].pc = "idle"
        /\ LET found == AppState_get_connection(app_connections, id)
           IN  app_calls' = [app_calls EXCEPT ![t] =
                   IF found # None
                   THEN [pc |-> "done", op |-> "connect", id |-> id, held |-> TRUE,
                         res |-> Err("Already connected")]
                   ELSE [pc |-> "create", op |-> "connect", id |-> id, held |-> FALSE]]
        /\ UNCHANGED <<clock, codecVars, connVars, groupVars, settingsVars, fileVars, envVars,
                       app_connections, app_mappers>>

\* connect_to_server(id), second step: `Arc::new(KafkaMapper::new(conn)?)`.
\* The mapper a caller creates is named after the caller.
ConnectCreate ==
    \E t \in Callers, created \in BOOLEAN :
        /\ app_calls[t].pc = "create"
        /\ IF created
           THEN /\ app_calls' = [app_calls EXCEPT ![t].pc = "insert"]
                /\ app_mappers' = [app_mappers EXCEPT !.open = @ \cup {t}]
           ELSE /\ app_calls' = [app_calls EXCEPT ![t] =
                                   [pc |-> "done", op |-> "connect", id |-> app_calls[t].id,
                                    held |-> FALSE, res |-> Err("KafkaMapper::new")]]
                /\ UNCHANGED app_mappers
        /\ UNCHANGED <<clock, codecVars, connVars, groupVars, settingsVars, fileVars, envVars,
                       app_connections>>

\* connect_to_server(id), last step: `self.state.add_connection(id, mapper)`
\* and the return of Ok. HashMap::insert replaces the mapper the map held
\* under id; a replaced mapper that nobody closed is kept in `replaced`.
ConnectInsert ==
    \E t \in Callers :
        /\ app_calls[t].pc = "insert"
        /\ LET id == app_calls[t].id
               old == AppState_get_connection(app_connections, id)
           IN  /\ app_connections' = AppState_add_connection(app_connections, id, t)
               /\ app_mappers' = IF old # None /\ old.val \in app_mappers.open
                                 THEN [app_mappers EXCEPT !.replaced = @ \cup {old.val}]
                                 ELSE app_mappers
               /\ app_calls' = [app_calls EXCEPT ![t] =
                                   [pc |-> "done", op |-> "connect", id |-> id, held |-> FALSE,
                                    res |-> Ok(<<>>)]]
        /\ UNCHANGED <<clock, codecVars, connVars, groupVars, settingsVars, fileVars, envVars>>

\* disconnect_from_server(id), first step: `self.state.get_connection(id)`;
\* Ok at once when the id is not connected.
DisconnectGet ==
    \E t \in Callers, id \in ServerIds :
        /\ app_calls[t].pc = "idle"
        /\ LET found == AppState_get_connection(app_connections, id)
           IN  app_calls' = [app_calls EXCEPT ![t] =
                   IF found # None
                   THEN [pc |-> "close", op |-> "disconnect", id |-> id, mapper |-> found.val]
                   ELSE [pc |-> "done", op |-> "disconnect", id |-> id, res |-> Ok(<<>>)]]
        /\ UNCHANGED <<clock, codecVars, connVars, groupVars, settingsVars, fileVars, envVars,
                       app_connections, app_mappers>>

\* disconnect_from_server(id), second step: `mapper.close()?`.
DisconnectClose ==
    \E t \in Callers :
        /\ app_calls[t].pc = "close"
        /\ app_mappers' = [app_mappers EXCEPT !.open = @ \ {app_calls[t].mapper},
                                              !.closed = @ \cup {app_calls[t].mapper}]
        /\ app_calls' = [app_calls EXCEPT ![t].pc = "remove"]
        /\ UNCHANGED <<clock, codecVars, connVars, groupVars, settingsVars, fileVars, envVars,
                       app_connections>>

\* disconnect_from_server(id), last step: `self.state.remove_connection(id)`
\* and the return of Ok.
DisconnectRemove ==
    \E t \in Callers :
        /\ app_calls[t].pc = "remove"
        /\ app_connections' = AppState_remove_connection(app_connections, app_calls[t].id)
        /\ app_calls' = [app_calls EXCEPT ![t] =
                            [pc |-> "done", op |-> "disconnect", id |-> app_calls[t].id,
                             res |-> Ok(<<>>)]]
        /\ UNCHANGED <<clock, codecVars, connVars, groupVars, settingsVars, fileVars, envVars,
                       app_mappers>>

\* Every caller invokes one command; the commands run concurrently.
AppNext ==
    \/ ConnectCheck \/ ConnectCreate \/ ConnectInsert
    \/ DisconnectGet \/ DisconnectClose \/ DisconnectRemove

AppSpec == ConnInit /\ [][AppNext]_vars

\* C30: at most one live session per server id. connect_to_server(id)
\* returns the already-connected error whenever it finds id in
\* AppState.connections; and among concurrent connect_to_server(id) calls on
\* one id, with no disconnect of that id, at most one returns Ok and no
\* created KafkaMapper is replaced in the map without having been closed.
C30_OneSessionPerServer ==
    /\ \A t \in Callers :
         (app_calls[t].pc = "done" /\ app_calls[t].op = "connect" /\ app_calls[t].held)
         => app_calls[t].res = Err("Already connected")
    /\ \A id \in ServerIds :
         (\A t \in Callers :
             app_calls[t].pc # "idle" => ~(app_calls[t].op = "disconnect" /\ app_calls[t].id = id))
         => /\ Cardinality({t \in Callers : /\ app_calls[t].pc = "done"
                                           /\ app_calls[t].op = "connect"
                                           /\ app_calls[t].id = id
                                           /\ app_calls[t].res.tag = "Ok"}) <= 1
            /\ \A m \in app_mappers.replaced : app_calls[m].id # id

\* ------------------------------------ environment: calls on the shared store
\* Environment.connection_settings is a plain field: a call reaches it
\* through a borrow of the store, `&self` for to_xml and `&mut self` for
\* add_connection and remove_connection, and the borrow lasts as long as the
\* call. A shared borrow can be taken while no exclusive one is live.
CanBorrowShared(borrow) == ~borrow.exclusive

\* An exclusive borrow taken whatever else is live.
CanBorrowMutAlways(borrow) == TRUE

\* An exclusive borrow can be taken while no other borrow is live.
CanBorrowMut(borrow) == borrow.shared = 0 /\ ~borrow.exclusive

\* The mutating calls made on the store.
StoreCalls ==
    {[op |-> "add", arg |-> [Template(n) EXCEPT !.id = 0]] : n \in {NameA, NameB, Nameprod}}
    \cup {[op |-> "remove", arg |-> id] : id \in 1..MaxNextId}

\* add_connection(c) or remove_connection(id) is entered: `&mut self`.
StoreCallBegin ==
    \E call \in StoreCalls :
        /\ call \notin env_writers
        /\ call.op = "add" => (Len(connections) < MaxConns /\ next_id < MaxNextId)
        /\ CanBorrowMut(env_borrow)
        /\ env_borrow' = [env_borrow EXCEPT !.exclusive = TRUE]
        /\ env_writers' = env_writers \cup {call}
        /\ UNCHANGED <<clock, codecVars, connVars, groupVars, settingsVars, fileVars, appVars,
                       env_pass>>

\* The call runs and returns; its borrow ends.
StoreCallEnd ==
    \E call \in env_writers :
        /\ LET r == IF call.op = "add" THEN add_connection(connections, next_id, call.arg)
                    ELSE remove_connection(connections, next_id, call.arg)
           IN  /\ connections' = r.connections
               /\ next_id' = r.next_id
        /\ env_writers' = env_writers \ {call}
        /\ env_borrow' = [env_borrow EXCEPT !.exclusive = FALSE]
        /\ UNCHANGED <<clock, codecVars, groupVars, settingsVars, fileVars, appVars,
                       last, pureAdd, xml, fresh, env_pass>>

\* to_xml() is entered: `&self`; it writes the start of the root element.
\* `at` keeps the store as it was at that instant.
PassBegin ==
    /\ env_pass.pc # "running"
    /\ CanBorrowShared(env_borrow)
    /\ env_borrow' = [env_borrow EXCEPT !.shared = @ + 1]
    /\ env_pass' = [pc |-> "running", i |-> 1, out |-> <<StartEv("connections", <<>>)>>,
                    at |-> connections, now |-> clock]
    /\ UNCHANGED <<clock, codecVars, connVars, groupVars, settingsVars, fileVars, appVars,
                   env_writers>>

\* One round of `for conn in &self.connections`: write_connection of the
\* next connection of the store; its failure ends the call.
PassStep ==
    /\ env_pass.pc = "running"
    /\ env_pass.i <= Len(connections)
    /\ LET w == write_connection(connections[env_pass.i], env_pass.now)
       IN  IF w.tag = "Ok"
           THEN /\ env_pass' = [env_pass EXCEPT !.i = @ + 1, !.out = @ \o w.val]
                /\ UNCHANGED env_borrow
           ELSE /\ env_pass' = [pc |-> "done", res |-> w, at |-> env_pass.at,
                                now |-> env_pass.now]
                /\ env_borrow' = [env_borrow EXCEPT !.shared = @ - 1]
    /\ UNCHANGED <<clock, codecVars, connVars, groupVars, settingsVars, fileVars, appVars,
                   env_writers>>

\* The loop is over: to_xml writes the end of the root element and returns.
PassEnd ==
    /\ env_pass.pc = "running"
    /\ env_pass.i > Len(connections)
    /\ env_pass' = [pc |-> "done", res |-> Ok(env_pass.out \o <<EndEv("connections")>>),
                    at |-> env_pass.at, now |-> env_pass.now]
    /\ env_borrow' = [env_borrow EXCEPT !.shared = @ - 1]
    /\ UNCHANGED <<clock, codecVars, connVars, groupVars, settingsVars, fileVars, appVars,
                   env_writers>>

\* Mutating calls and serialize passes on one store, in any interleaving.
SnapshotNext == StoreCallBegin \/ StoreCallEnd \/ PassBegin \/ PassStep \/ PassEnd

SnapshotSpec == ConnInit /\ [][SnapshotNext]_vars

====
